---- MODULE Spec2Model ----
(***************************************************************************)
(* A model of the fetcher package of netease-music-data-mining:            *)
(*   - IndexJob (src/fetcher/src/job.py) over WorkSpan/StepSpan            *)
(*     (src/fetcher/src/span.py): the step / leap / reverse traversal;     *)
(*   - FlagGroup / TaskFlagGroup (src/fetcher/src/flag.py) and             *)
(*     IndexTaskFlagGroup (src/fetcher/src/task.py): set / unset with      *)
(*     rollback, driven by one or several threads;                         *)
(*   - FlagGroup.register (src/fetcher/src/flag.py): the checks a batch    *)
(*     of new members goes through, on a small universe of members;        *)
(*   - FlagGroup.wait / no_wait (src/fetcher/src/flag.py): threads blocked *)
(*     on the group's condition while others set and unset.                *)
(***************************************************************************)
EXTENDS Integers, Sequences, FiniteSets, TLC

VARIABLES
    \* ---- IndexJob -------------------------------------------------------
    span,                 \* the job's own WorkSpan fields begin, end, step
    rejected,             \* the indices the registered handler rejects
    job_span,             \* IndexJob.job_span (a StepSpan, mutated in place)
    current,              \* WorkSpan._current
    worked_span,          \* WorkSpan._worked_span
    flag,                 \* BaseJob._flag, the members present
    break_point_span,     \* IndexJob._break_point_span
    break_point_current,  \* IndexJob._break_point_current
    first_unaccepted,     \* IndexJob._reverse_leaping_first_unaccepted_value
    pc,                   \* where run() stands
    iter,                 \* the live iterator of _step (count) or _leap (_jumper)
    emitted,              \* the events emitted on the job's emitter, in order
    checked,              \* _try_cancel has passed in this turn of _step / _leap
    canceller,            \* the thread that calls cancel(): where it stands,
                          \* whether the job was running from the call of
                          \* cancel() to its return, and how many events the
                          \* job had emitted at that return
    reruns,               \* calls of run() made after the job has stopped
    stoppers,             \* the indices at which the handler raises
                          \* ExplicitlyStopHandlingError
    err_info,             \* the exception "IndexJob.stopped" was emitted with
    faulty,               \* the indices at which the handler raises an
                          \* exception that is none of the signals
    handler_calls,        \* how many times the registered handler was invoked
    \* ---- FlagGroup ------------------------------------------------------
    vocab,                \* the class of the group: "task" (TaskFlagGroup) or
                          \* "index" (IndexTaskFlagGroup)
    flags,                \* FlagGroup._flags
    stack,                \* per thread: the frames of its set / unset calls
    call,                 \* per thread: its outermost call (what it was given,
                          \* _flags when it began, its outcome, what it emitted)
    left,                 \* per thread: calls it may still make (SpecFlagMT)
    \* ---- FlagGroup.register ---------------------------------------------
    registered,           \* the members registered on the class so far
    reg,                  \* the last register call: the registry when it
                          \* began, its outcome, the error it raised
    \* ---- FlagGroup.wait / no_wait ----------------------------------------
    waiter,               \* per thread: its wait / no_wait call
    script,               \* per thread: the calls it still has to make, in
                          \* order (the thread bodies of test_wait / test_no_wait)
    \* ---- IndexFetcherMonitor ---------------------------------------------
    mjobs,                \* per job of the monitored fetchers: its fetcher,
                          \* whether it is pending, running or stopped, and
                          \* its processed value (in units of 1 / MaxProg)
    monitored_jobs,       \* IndexFetcherMonitor._monitored_jobs: per job seen
                          \* its two counters, and the "handling" and
                          \* "handled" events it emitted since it was seen
    process_deque,        \* the deque the process_deque field of every
                          \* JobStatusData refers to; each sample is kept
                          \* with the job it was taken from
    ticks,                \* the ticks the monitor has made
    reader,               \* a thread reading a property of the monitor: where
                          \* it is in the generator over _monitored_jobs.values()
    \* ---- IndexFetcher ----------------------------------------------------
    fetcher,              \* begin, end, step and thread_weights of the fetcher
    jobs,                 \* the chunks start() made jobs of, in order
    fetcher_flag          \* the fetcher's flag (a set of ThreadFlag members)

jobVars == <<span, rejected, job_span, current, worked_span, flag,
             break_point_span, break_point_current, first_unaccepted,
             pc, iter, emitted, checked, canceller, reruns, stoppers, err_info,
             faulty, handler_calls>>

fgVars == <<vocab, flags, stack, call, left>>

regVars == <<registered, reg>>

waitVars == <<waiter, script>>

monVars == <<mjobs, monitored_jobs, process_deque, ticks, reader>>

fetVars == <<fetcher, jobs, fetcher_flag>>

sysVars == <<monVars, fetVars>>

vars == <<jobVars, fgVars, regVars, waitVars, sysVars>>

\* Optional values: None is the empty sequence, a value x is <<x>>
None == <<>>
Some(x) == <<x>>
Val(o) == o[1]

\* ---- bounds -------------------------------------------------------------
MaxIdx == 5      \* job ranges are drawn from 0..MaxIdx
MaxStep == 2     \* steps are drawn from -MaxStep..MaxStep
MaxArgs == 2     \* a set / unset call names 1..MaxArgs flags
MaxCallsMT == 2  \* calls per thread when several threads share a group
MaxBatch == 2    \* a register call is given 1..MaxBatch members
MaxReruns == 1   \* calls of run() on a job that has stopped
MaxProg == 2     \* a job's processed value is one of 0, 1/MaxProg, .., 1
MaxProbes == 2   \* probes a job makes after the monitor has seen it
MaxTicks == 2    \* ticks of the monitor
MaxFetch == 6    \* fetcher ranges are drawn from 0..MaxFetch
MaxWeights == 3  \* thread_weights has 0..MaxWeights entries
MaxWeight == 2   \* each weight is one of 1..MaxWeight
MaxShared == 1   \* calls per thread when a further thread waits on the group

\* ---- program constants --------------------------------------------------
Base == 2            \* jump_step(base=2)
RepeatCount == 2     \* jump_step(repeat_count=2)
TestLo == 1          \* test_jump_back: IndexJob(1, 10, 1) / IndexJob(10, 1, -1)
TestHi == 10

Min(a, b) == IF a < b THEN a ELSE b
Max(a, b) == IF a < b THEN b ELSE a

RECURSIVE Pow(_, _)
Pow(b, e) == IF e = 0 THEN 1 ELSE b * Pow(b, e - 1)

\* ---- span.py ------------------------------------------------------------
MinVal(s) == Min(s.begin, s.end)
MaxVal(s) == Max(s.begin, s.end)
Contain(s, i) == MinVal(s) <= i /\ i <= MaxVal(s)
SpanLen(s) == MaxVal(s) - MinVal(s) + 1

\* StepSpan.__init__ raises ValueError for a step that cannot reach the end
StepSpanValid(b, e, st) == ~((b < e /\ st <= 0) \/ (b > e /\ st >= 0))

\* StepSpan.__init__ with end = None: math.copysign(float("inf"), step); Inf
\* stands for float("inf"), an end no index of a bounded run comes near
Inf == 1000
InfiniteEnd(st) == IF st < 0 THEN 0 - Inf ELSE Inf
Infinite(s) == s.end = Inf \/ s.end = 0 - Inf

\* WorkSpan.processed as numerator and denominator; len(self) raises
\* TypeError when Span.__len__ returns the float inf
Processed(ws, s) ==
    IF ws = None THEN [raises |-> "", num |-> 0, den |-> 1]
    ELSE IF Infinite(s) THEN [raises |-> "TypeError", num |-> 0, den |-> 1]
    ELSE [raises |-> "", num |-> SpanLen(Val(ws)), den |-> SpanLen(s)]

\* mutants of the range test: the bounds themselves refused; the lower bound forgotten
OutOfRangeStrict(s, i) == i <= MinVal(s) \/ MaxVal(s) <= i
OutOfRangeUpperOnly(s, i) == MaxVal(s) < i

\* the range test at the head of WorkSpan._update_worked_span (IndexError)
OutOfRange(s, i) == i < MinVal(s) \/ MaxVal(s) < i

UpdateWorkedSpan(ws, i) ==
    IF ws = None THEN Some([begin |-> i, end |-> i])
    ELSE IF Contain(Val(ws), i) THEN ws
    ELSE IF i < Val(ws).begin \/ i > Val(ws).begin
         THEN Some([begin |-> i, end |-> Val(ws).end])
    ELSE Some([begin |-> Val(ws).begin, end |-> i])

\* ---- util.py / job.py helpers --------------------------------------------
\* mutant of jump_step: every power yielded once (1,2,4,...)
JumpStepNoRepeat(k) == Pow(Base, k)

\* the k-th value (k = 0, 1, ...) yielded by jump_step(): 1,1,2,2,4,4,...
JumpStep(k) == Pow(Base, k \div RepeatCount)

\* int(math.copysign(d, sign)) for integer sign (copysign(d, 0) = +d)
Copysign(d, sign) == IF sign < 0 THEN 0 - d ELSE d

\* _jumper: the value after i when the k-th offset is applied
JumperNext(i, k, sign) == i + Copysign(JumpStep(k), sign)

\* mutant of count(current, step): the step applied twice
CountNextTwice(i, st) == i + st + st

\* count(current, step): the value after i
CountNext(i, st) == i + st

\* __safe_handle: TRUE when every handler returned, FALSE when the handler
\* raised ExplicitlySkipHandlingError (or another ordinary exception)
SafeHandle(i, R) == i \notin R

\* the event __safe_handle emits after "IndexJob.handling"
HandleEvent(i, R) == IF SafeHandle(i, R) THEN "handled" ELSE "handle_skipped"

\* the event that ends a probe: __safe_handle catches every exception of the
\* handler that is neither ExplicitlyStopHandlingError nor AssertionError
ProbeEvent(i) ==
    IF i \in faulty THEN "unexpected_exception" ELSE HandleEvent(i, rejected)

\* mutant of __safe_handle: the last `except Exception` clause is missing
PropagatesAll(i) == i \in stoppers \cup faulty

\* the probes whose exception __safe_handle raises again
Propagates(i) == i \in stoppers

\* JobStepFlag arithmetic used by job.py: flag += member, flag -= member
FlagAdd(f, m) == f \cup {m}
FlagSub(f, m) == f \ {m}

Ev(name, i, f) == [name |-> name, cur |-> i, flag |-> f]

\* ---- IndexJob: phase preparation ----------------------------------------
\* mutant of _prepare_stepping: stepping resumes at the breakpoint itself
PrepareSteppingAtBreakPoint ==
    /\ flag' = (flag \ {"reverse", "leaping"}) \cup {"stepping"}
    /\ job_span' = Val(break_point_span)
    /\ current' = break_point_current
    /\ UNCHANGED <<break_point_span, break_point_current, first_unaccepted>>

\* mutant of _prepare_stepping: stepping resumes at the first unaccepted value
PrepareSteppingAtFirstUnaccepted ==
    /\ flag' = FlagAdd(FlagSub(FlagSub(flag, "reverse"), "leaping"), "stepping")
    /\ job_span' = Val(break_point_span)
    /\ current' = first_unaccepted
    /\ UNCHANGED <<break_point_span, break_point_current, first_unaccepted>>

PrepareStepping ==
    /\ flag' = FlagAdd(FlagSub(FlagSub(flag, "reverse"), "leaping"), "stepping")
    /\ job_span' = Val(break_point_span)
    /\ current' = Some(Val(break_point_current) + Val(break_point_span).step)
    /\ UNCHANGED <<break_point_span, break_point_current, first_unaccepted>>

PrepareLeaping(cur) ==
    /\ first_unaccepted' = Some(cur)
    /\ flag' = FlagAdd(FlagSub(flag, "stepping"), "leaping")
    /\ current' = Some(cur)
    /\ UNCHANGED <<job_span, break_point_span, break_point_current>>

\* mutant of _prepare_reverse_stepping: the leaping flag is not taken away
PrepareReverseSteppingKeepsLeaping(cur) ==
    /\ flag' = FlagAdd(flag, "stepping")
    /\ current' = Some(cur + job_span.step)
    /\ UNCHANGED <<job_span, break_point_span, break_point_current, first_unaccepted>>

PrepareReverseStepping(cur) ==
    /\ flag' = FlagAdd(FlagSub(flag, "leaping"), "stepping")
    /\ current' = Some(cur + job_span.step)
    /\ UNCHANGED <<job_span, break_point_span, break_point_current, first_unaccepted>>

\* the span the reverse phase works on: step reversed, from the accepted
\* index back to the first unaccepted value
ReverseSpan(js, cur, fu) == [begin |-> cur, end |-> fu, step |-> 0 - js.step]

PrepareReverseLeaping(cur) ==
    /\ break_point_span' = Some(job_span)
    /\ break_point_current' = Some(cur)
    /\ job_span' = ReverseSpan(job_span, cur, Val(first_unaccepted))
    /\ flag' = FlagAdd(flag, "reverse")
    /\ current' = Some(cur)
    /\ UNCHANGED first_unaccepted

\* mutant of the finally clause of _work: stopping is not set
StoppedUnset(f) == FlagSub(f, "running")

\* run(): IndexError leaves the loop; the finally clauses of run and _work
Stopped(f) == FlagAdd(FlagSub(f, "running"), "stopping")

\* BaseJob.cancel, statement by statement
NoCanceller == [st |-> "off", running |-> FALSE, at |-> 0]

\* mutant of the finally clause of _work on cancellation: running is kept
StopOnCancelKeepsRunning ==
    /\ pc' = "stopped"
    /\ flag' = FlagAdd(FlagAdd(FlagSub(flag, "canceling"), "stopping_with_canceled"),
                       "stopping")
    /\ break_point_span' = None
    /\ break_point_current' = None
    /\ first_unaccepted' = None
    /\ emitted' = Append(emitted, Ev("stopped", current,
                          FlagAdd(FlagSub(flag, "canceling"), "stopping_with_canceled")))
    /\ err_info' = "JobCancelError"
    /\ UNCHANGED <<job_span, current, worked_span, iter, handler_calls>>

\* run(): JobCancelError raised by _try_cancel leaves the loop
StopOnCancel ==
    /\ pc' = "stopped"
    /\ flag' = Stopped(FlagAdd(FlagSub(flag, "canceling"), "stopping_with_canceled"))
    /\ break_point_span' = None
    /\ break_point_current' = None
    /\ first_unaccepted' = None
    /\ emitted' = Append(emitted, Ev("stopped", current,
                          FlagAdd(FlagSub(flag, "canceling"), "stopping_with_canceled")))
    /\ err_info' = "JobCancelError"
    /\ UNCHANGED <<job_span, current, worked_span, iter, handler_calls>>

\* mutant of __safe_handle: "IndexJob.handled" is emitted although the
\* handler raised ExplicitlyStopHandlingError
StopOnExplicitStopHandled(i) ==
    /\ pc' = "stopped"
    /\ worked_span' = UpdateWorkedSpan(worked_span, i)
    /\ current' = Some(i)
    /\ flag' = Stopped(FlagAdd(FlagSub(flag, "running"), "stopping_with_exception"))
    /\ break_point_span' = None
    /\ break_point_current' = None
    /\ first_unaccepted' = None
    /\ emitted' = emitted \o
          <<Ev("handling", Some(i), flag),
            Ev("handled", Some(i), flag),
            Ev("stopped", Some(i),
               FlagAdd(FlagSub(flag, "running"), "stopping_with_exception"))>>
    /\ err_info' = "ExplicitlyStopHandlingError"
    /\ handler_calls' = handler_calls + 1
    /\ UNCHANGED <<job_span, iter>>

\* run(): ExplicitlyStopHandlingError raised by the handler at index i passes
\* through __safe_handle and leaves the loop by `except Exception`
StopOnExplicitStop(i) ==
    /\ pc' = "stopped"
    /\ worked_span' = UpdateWorkedSpan(worked_span, i)
    /\ current' = Some(i)
    /\ flag' = Stopped(FlagAdd(FlagSub(flag, "running"), "stopping_with_exception"))
    /\ break_point_span' = None
    /\ break_point_current' = None
    /\ first_unaccepted' = None
    /\ emitted' = emitted \o
          <<Ev("handling", Some(i), flag),
            Ev("stopped", Some(i),
               FlagAdd(FlagSub(flag, "running"), "stopping_with_exception"))>>
    /\ err_info' = "ExplicitlyStopHandlingError"
    /\ handler_calls' = handler_calls + 1
    /\ UNCHANGED <<job_span, iter>>

StopOnIndexError ==
    /\ pc' = "stopped"
    /\ err_info' = "IndexError"
    /\ flag' = Stopped(flag)
    /\ break_point_span' = None
    /\ break_point_current' = None
    /\ first_unaccepted' = None
    /\ emitted' = Append(emitted, Ev("stopped", current, flag))
    /\ UNCHANGED <<job_span, current, worked_span, iter, handler_calls>>

\* ---- IndexJob: actions ---------------------------------------------------
Run ==
    /\ pc = "pending"
    /\ "stopping" \notin flag
    /\ worked_span' = None
    /\ flag' = FlagAdd(FlagAdd(FlagSub(flag, "pending"), "running"), "stepping")
    /\ current' = Some(job_span.begin)
    /\ emitted' = Append(emitted, Ev("running", current, FlagAdd(FlagSub(flag, "pending"), "running")))
    /\ pc' = "switch"
    /\ UNCHANGED <<span, rejected, job_span, break_point_span, break_point_current,
                   first_unaccepted, iter>>
    /\ UNCHANGED <<checked, canceller, reruns, stoppers, err_info, faulty,
                   handler_calls>>
    /\ UNCHANGED <<fgVars, regVars, waitVars, sysVars>>

StepSwitch ==
    /\ pc = "switch"
    /\ IF "stepping" \in flag
       THEN /\ pc' = "stepping"
            /\ iter' = [i |-> Val(current), k |-> 0]
            /\ emitted' = Append(emitted, Ev("step_switch", current, flag))
       ELSE IF "leaping" \in flag
       THEN /\ pc' = "leaping"
            /\ iter' = [i |-> Val(current), k |-> 0]
            /\ emitted' = Append(emitted, Ev("step_switch", current, flag))
       ELSE UNCHANGED <<pc, iter, emitted>>
    /\ UNCHANGED <<span, rejected, job_span, current, worked_span, flag,
                   break_point_span, break_point_current, first_unaccepted>>
    /\ UNCHANGED <<checked, canceller, reruns, stoppers, err_info, faulty,
                   handler_calls>>
    /\ UNCHANGED <<fgVars, regVars, waitVars, sysVars>>

\* _try_cancel at the head of a turn of the loop of _step or _leap (the
\* branch of _step for step 0 has none)
TryCancel ==
    /\ pc \in {"stepping", "leaping"}
    /\ ~checked
    /\ ~(pc = "stepping" /\ job_span.step = 0)
    /\ IF "canceling" \in flag
       THEN /\ StopOnCancel
            /\ UNCHANGED checked
       ELSE /\ checked' = TRUE
            /\ UNCHANGED <<job_span, current, worked_span, flag, break_point_span,
                           break_point_current, first_unaccepted, pc, iter, emitted,
                           err_info, handler_calls>>
    /\ UNCHANGED <<span, rejected, canceller, reruns, stoppers, faulty>>
    /\ UNCHANGED <<fgVars, regVars, waitVars, sysVars>>

\* one turn of the loop of _step, with what _handle_stepping does when it ends
StepProbe ==
    /\ pc = "stepping"
    /\ checked \/ job_span.step = 0
    /\ checked' = FALSE
    /\ LET i == IF job_span.step = 0 THEN job_span.begin ELSE iter.i
       IN IF OutOfRange(span, i)
          THEN IF "reverse" \in flag
               THEN /\ PrepareStepping
                    /\ pc' = "switch"
                    /\ UNCHANGED <<worked_span, iter, emitted, err_info, handler_calls>>
               ELSE StopOnIndexError
          ELSE IF Propagates(i)
          THEN StopOnExplicitStop(i)
          ELSE /\ worked_span' = UpdateWorkedSpan(worked_span, i)
               /\ UNCHANGED err_info
               /\ handler_calls' = handler_calls + 1
               /\ emitted' = emitted \o <<Ev("handling", Some(i), flag),
                                          Ev(ProbeEvent(i), Some(i), flag)>>
               /\ IF SafeHandle(i, rejected \cup faulty) /\ job_span.step # 0
                  THEN /\ iter' = [i |-> CountNext(i, job_span.step), k |-> 0]
                       /\ current' = Some(i)
                       /\ UNCHANGED <<pc, flag, job_span, break_point_span,
                                      break_point_current, first_unaccepted>>
                  ELSE /\ pc' = "switch"
                       /\ UNCHANGED iter
                       /\ IF "reverse" \in flag
                          THEN PrepareStepping
                          ELSE PrepareLeaping(i)
    /\ UNCHANGED <<span, rejected, canceller, reruns, stoppers, faulty>>
    /\ UNCHANGED <<fgVars, regVars, waitVars, sysVars>>

\* one turn of the loop of _leap, with what _handle_leaping does when it ends
LeapProbe ==
    /\ pc = "leaping"
    /\ checked
    /\ checked' = FALSE
    /\ LET i == JumperNext(iter.i, iter.k, job_span.step)
       IN IF OutOfRange(span, i)
          THEN IF "reverse" \in flag
               THEN /\ PrepareStepping
                    /\ pc' = "switch"
                    /\ UNCHANGED <<worked_span, iter, emitted, err_info, handler_calls>>
               ELSE StopOnIndexError
          ELSE IF Propagates(i)
          THEN StopOnExplicitStop(i)
          ELSE /\ worked_span' = UpdateWorkedSpan(worked_span, i)
               /\ UNCHANGED err_info
               /\ handler_calls' = handler_calls + 1
               /\ emitted' = emitted \o <<Ev("handling", Some(i), flag),
                                          Ev(ProbeEvent(i), Some(i), flag)>>
               /\ IF SafeHandle(i, rejected \cup faulty)
                  THEN /\ pc' = "switch"
                       /\ UNCHANGED iter
                       /\ IF "reverse" \in flag
                          THEN PrepareReverseStepping(i)
                          ELSE PrepareReverseLeaping(i)
                  ELSE /\ iter' = [i |-> i, k |-> iter.k + 1]
                       /\ current' = Some(i)
                       /\ UNCHANGED <<pc, flag, job_span, break_point_span,
                                      break_point_current, first_unaccepted>>
    /\ UNCHANGED <<span, rejected, canceller, reruns, stoppers, faulty>>
    /\ UNCHANGED <<fgVars, regVars, waitVars, sysVars>>

\* cancel(), first statement: self._flag -= JobStepFlag.running
CancelSub ==
    /\ canceller.st = "idle"
    /\ canceller' = [st |-> "sub", running |-> "running" \in flag, at |-> Len(emitted)]
    /\ flag' = FlagSub(flag, "running")
    /\ UNCHANGED <<span, rejected, job_span, current, worked_span, break_point_span,
                   break_point_current, first_unaccepted, pc, iter, emitted,
                   checked, reruns, stoppers, err_info, faulty, handler_calls>>
    /\ UNCHANGED <<fgVars, regVars, waitVars, sysVars>>

\* cancel(), second statement: self._flag += JobStepFlag.canceling
CancelAdd ==
    /\ canceller.st = "sub"
    /\ canceller' = [st |-> "done",
                     running |-> canceller.running /\ pc # "stopped",
                     at |-> Len(emitted)]
    /\ flag' = FlagAdd(flag, "canceling")
    /\ UNCHANGED <<span, rejected, job_span, current, worked_span, break_point_span,
                   break_point_current, first_unaccepted, pc, iter, emitted,
                   checked, reruns, stoppers, err_info, faulty, handler_calls>>
    /\ UNCHANGED <<fgVars, regVars, waitVars, sysVars>>

\* run() called on a job whose flag holds stopping: _worked_span is reset,
\* then _work raises RuntimeError before anything else is touched
RunAgain ==
    /\ pc = "stopped"
    /\ "stopping" \in flag
    /\ reruns < MaxReruns
    /\ reruns' = reruns + 1
    /\ worked_span' = None
    /\ UNCHANGED <<span, rejected, job_span, current, flag, break_point_span,
                   break_point_current, first_unaccepted, pc, iter, emitted,
                   checked, canceller, stoppers, err_info, faulty, handler_calls>>
    /\ UNCHANGED <<fgVars, regVars, waitVars, sysVars>>

\* ---- flag.py / task.py: the vocabularies ------------------------------------
\* members are named by their primary name (the class attribute's name)
TaskFlags == {"pending", "running", "stopping", "canceling",
              "stopping_with_exception", "stopping_with_canceled"}
IndexFlags == TaskFlags \cup {"leaping", "stepping", "reverse"}
\* the members the tests' flags fixture registers on FlagGroup itself
TestFlags == {"aaa", "bbb", "ccc", "ddd", "eee", "fff"}
Registered(v) ==
    CASE v = "index" -> IndexFlags
      [] v = "test" -> TestFlags
      [] OTHER -> TaskFlags

Aliases(f) ==
    CASE f = "pending" -> {"pend"}
      [] f = "running" -> {"run"}
      [] f = "stopping" -> {"stop"}
      [] f = "canceling" -> {"cancel"}
      [] f = "stopping_with_exception" -> {"swe"}
      [] f = "stopping_with_canceled" -> {"swc"}
      [] OTHER -> {}
Names(f) == {f} \cup Aliases(f)

Parents(f) ==
    CASE f \in {"stopping_with_exception", "stopping_with_canceled"} -> {"stopping"}
      [] f \in {"leaping", "stepping"} -> {"running"}
      [] f = "reverse" -> {"running", "leaping", "stepping"}
      [] f = "eee" -> {"ddd"}
      [] f = "fff" -> {"eee"}
      [] OTHER -> {}

TaskMutexGroups ==
    {{"pending", "running", "stopping", "canceling"},
     {"stopping_with_exception", "stopping_with_canceled"}}
MutexGroups(v) ==
    CASE v = "index" -> TaskMutexGroups \cup {{"leaping", "stepping"}}
      [] v = "test" -> {}
      [] OTHER -> TaskMutexGroups

\* get_flag finds a registered member by name or alias (ValueError otherwise)
Known(v, name) == \E f \in Registered(v) : name \in Names(f)
GetFlag(v, name) == CHOOSE f \in Registered(v) : name \in Names(f)
ToFlagObjs(v, args) == {GetFlag(v, a) : a \in args}

\* mutant of _get_conflict_group: a conflict needs more than two members
HasConflictOfThree(v, fs) == \E g \in MutexGroups(v) : Cardinality(g \cap fs) > 2

\* _get_conflict_group(fs) is not None
HasConflict(v, fs) == \E g \in MutexGroups(v) : Cardinality(g \cap fs) > 1

\* `parent_name in self._flags`: a str looked up in a set of Flag objects.
\* Flag.__hash__ is hash(names) ^ hash(parents), never the hash of the str,
\* so the lookup misses whether or not the parent is present
StrInFlags(name, fs) == FALSE

\* mutant of unset's scan for dependent members: none is ever found
DependentsNone(f, fs) == {}

\* unset: the present members whose parents name the member being removed
Dependents(f, fs) == {o \in fs \ {f} : Parents(o) \cap Names(f) # {}}

\* mutant of unset's removal: the member stays
RemovedNothing(fs, f) == fs

\* unset: self._flags.remove(flag) when the member is present
Removed(fs, f) == fs \ {f}

\* mutant of _work's except clause: the backup is not put back
RollbackNothing(backup, fs) == fs

\* _work's except clause: self._flags = backup
Rollback(backup, fs) == backup

\* ---- FlagGroup: calls in progress -------------------------------------------
Threads == DOMAIN stack

\* the frame of set(args, opt) / unset(args, opt) once _work has taken its
\* backup and to_flag_objs has run (raising for a name that is not registered)
Frame(op, opt, args, fs) ==
    [op |-> op, opt |-> opt, backup |-> fs,
     todo |-> IF \A a \in args : Known(vocab, a) THEN ToFlagObjs(vocab, args) ELSE {},
     cur |-> "", ptodo |-> {},
     pcf |-> IF \A a \in args : Known(vocab, a) THEN "pick" ELSE "raise"]

Top(t) == stack[t][Len(stack[t])]
WithTop(t, fr) == [stack EXCEPT ![t] = [@ EXCEPT ![Len(@)] = fr]]
WithPush(t, fr, inner) == [stack EXCEPT ![t] = Append([@ EXCEPT ![Len(@)] = fr], inner)]
Busy(t) == stack[t] # <<>>

\* what the caller and the emitter's listeners see of a call: the members
\* before it, how it ended, which ValueError it raised, what was emitted
NewCall(op, args, fs) ==
    [op |-> op, pre |-> fs, res |-> "running",
     why |-> IF \A a \in args : Known(vocab, a) THEN "" ELSE "unknown",
     log |-> {}, one |-> "", last |-> None]
Logged(t, name, f) ==
    [call EXCEPT ![t].log = @ \cup {[name |-> name, flag |-> f]}]
Failing(t, why) == [call EXCEPT ![t].why = why]

\* ---- FlagGroup: waiting on the condition -------------------------------------
Waiters == DOMAIN waiter

\* mutant of _wait's predicate: the sense of reverse is swapped
PredicateSwapped(op, f, fs) == (op = "wait") = (GetFlag(vocab, f) \in fs)

\* _wait's predicate, reverse == self.has(flag): wait passes reverse=False,
\* no_wait passes reverse=True
Predicate(op, f, fs) == (op = "no_wait") = (GetFlag(vocab, f) \in fs)

NoWait ==
    [op |-> "wait", flag |-> "", timed |-> FALSE, st |-> "idle",
     notified |-> FALSE, res |-> FALSE, held |-> FALSE, by |-> ""]

\* wait_for returns: the value of the predicate it last evaluated, whether
\* the flag was a member at that moment, and what ended the wait
Returned(w, fs, by) ==
    [waiter[w] EXCEPT !.st = "done", !.notified = FALSE, !.by = by,
                      !.res = Predicate(waiter[w].op, waiter[w].flag, fs),
                      !.held = GetFlag(vocab, waiter[w].flag) \in fs]

\* self._cond.notify_all(): every thread blocked on the condition is woken
NotifyAll ==
    [w \in Waiters |->
        IF waiter[w].st = "blocked" THEN [waiter[w] EXCEPT !.notified = TRUE]
        ELSE waiter[w]]

\* wait(flag, timeout) / no_wait(flag, timeout) is entered: wait_for
\* evaluates the predicate under the lock and blocks if it is false
StartWait(w, op, f, timed) ==
    waiter' = [waiter EXCEPT ![w] =
        IF Predicate(op, f, flags)
        THEN [NoWait EXCEPT !.op = op, !.flag = f, !.timed = timed, !.st = "done",
                            !.res = TRUE, !.held = GetFlag(vocab, f) \in flags,
                            !.by = "entry"]
        ELSE [NoWait EXCEPT !.op = op, !.flag = f, !.timed = timed,
                            !.st = "blocked"]]

\* ---- FlagGroup: actions ------------------------------------------------------
\* the for loop over to_flag_objs(flags) takes its next member
Pick(t) ==
    /\ Busy(t) /\ Top(t).pcf = "pick" /\ Top(t).todo # {}
    /\ \E f \in Top(t).todo :
          stack' = WithTop(t, [Top(t) EXCEPT
                       !.cur = f,
                       !.ptodo = IF Top(t).op = "set" THEN Parents(f)
                                 ELSE Dependents(f, flags),
                       !.pcf = IF Top(t).op = "set" THEN "parents" ELSE "children"])
    /\ UNCHANGED <<vocab, flags, call, left>>
    /\ UNCHANGED <<jobVars, regVars, waitVars, sysVars>>

\* the loop is over: _work exits normally and the call returns
Return(t) ==
    /\ Busy(t) /\ Top(t).pcf = "pick" /\ Top(t).todo = {}
    /\ stack' = [stack EXCEPT ![t] = SubSeq(@, 1, Len(@) - 1)]
    /\ call' = IF Len(stack[t]) = 1 THEN [call EXCEPT ![t].res = "ok"] ELSE call
    /\ UNCHANGED <<vocab, flags, left>>
    /\ UNCHANGED <<jobVars, regVars, waitVars, sysVars>>

\* set: the next parent of the member, refused or set by a nested set(parent)
ParentStep(t) ==
    /\ Busy(t) /\ Top(t).pcf = "parents" /\ Top(t).ptodo # {}
    /\ \E p \in Top(t).ptodo :
          IF ~Top(t).opt /\ ~StrInFlags(p, flags)
          THEN /\ stack' = WithTop(t, [Top(t) EXCEPT !.pcf = "raise"])
               /\ call' = Failing(t, "parent")
          ELSE /\ stack' = WithPush(t, [Top(t) EXCEPT !.ptodo = @ \ {p}],
                                    Frame("set", TRUE, {p}, flags))
               /\ call' = call
    /\ UNCHANGED <<vocab, flags, left>>
    /\ UNCHANGED <<jobVars, regVars, waitVars, sysVars>>

\* set: _get_conflict_group(self._flags | {flag})
Check(t) ==
    /\ Busy(t) /\ Top(t).pcf = "parents" /\ Top(t).ptodo = {}
    /\ IF HasConflict(vocab, flags \cup {Top(t).cur})
       THEN /\ stack' = WithTop(t, [Top(t) EXCEPT !.pcf = "raise"])
            /\ call' = Failing(t, "conflict")
       ELSE /\ stack' = WithTop(t, [Top(t) EXCEPT !.pcf = "add"])
            /\ call' = call
    /\ UNCHANGED <<vocab, flags, left>>
    /\ UNCHANGED <<jobVars, regVars, waitVars, sysVars>>

\* set: with self._cond: add, notify_all, emit("set")
Add(t) ==
    /\ Busy(t) /\ Top(t).pcf = "add"
    /\ flags' = flags \cup {Top(t).cur}
    /\ call' = Logged(t, "set", Top(t).cur)
    /\ stack' = WithTop(t, [Top(t) EXCEPT !.todo = @ \ {Top(t).cur}, !.cur = "",
                                          !.pcf = "pick"])
    /\ waiter' = NotifyAll
    /\ UNCHANGED <<vocab, left, script>>
    /\ UNCHANGED <<jobVars, regVars, sysVars>>

\* unset: the next dependent member, removed by a nested unset or refused
ChildStep(t) ==
    /\ Busy(t) /\ Top(t).pcf = "children" /\ Top(t).ptodo # {}
    /\ \E c \in Top(t).ptodo :
          IF Top(t).opt
          THEN /\ stack' = WithPush(t, [Top(t) EXCEPT !.ptodo = @ \ {c}],
                                    Frame("unset", TRUE, {c}, flags))
               /\ call' = call
          ELSE /\ stack' = WithTop(t, [Top(t) EXCEPT !.pcf = "raise"])
               /\ call' = Failing(t, "dependent")
    /\ UNCHANGED <<vocab, flags, left>>
    /\ UNCHANGED <<jobVars, regVars, waitVars, sysVars>>

\* unset: with self._cond: remove if present (emit("unset")), notify_all
Remove(t) ==
    /\ Busy(t) /\ Top(t).pcf = "children" /\ Top(t).ptodo = {}
    /\ flags' = Removed(flags, Top(t).cur)
    /\ call' = IF Top(t).cur \in flags THEN Logged(t, "unset", Top(t).cur) ELSE call
    /\ stack' = WithTop(t, [Top(t) EXCEPT !.todo = @ \ {Top(t).cur}, !.cur = "",
                                          !.pcf = "pick"])
    /\ waiter' = NotifyAll
    /\ UNCHANGED <<vocab, left, script>>
    /\ UNCHANGED <<jobVars, regVars, sysVars>>

\* _work's except clause: put the backup back and raise to the caller
Raise(t) ==
    /\ Busy(t) /\ Top(t).pcf = "raise"
    /\ flags' = Rollback(Top(t).backup, flags)
    /\ IF Len(stack[t]) = 1
       THEN /\ stack' = [stack EXCEPT ![t] = <<>>]
            /\ call' = [call EXCEPT ![t].res = "failed"]
       ELSE /\ LET outer == SubSeq(stack[t], 1, Len(stack[t]) - 1)
               IN stack' = [stack EXCEPT ![t] =
                               [outer EXCEPT ![Len(outer)].pcf = "raise"]]
            /\ call' = call
    /\ UNCHANGED <<vocab, left>>
    /\ UNCHANGED <<jobVars, regVars, waitVars, sysVars>>

\* what a caller may pass: registered names of either vocabulary (a member of
\* the derived vocabulary is foreign to a TaskFlagGroup), an alias, an unknown name
ArgNames == IndexFlags \cup {"swe", "ggg"}
ArgSets == {a \in SUBSET ArgNames : 1 <= Cardinality(a) /\ Cardinality(a) <= MaxArgs}

\* a thread calls set(args, set_parent_flag_automatically=opt) or
\* unset(args, remove_all_children=opt)
Call(t) ==
    /\ ~Busy(t)
    /\ \E op \in {"set", "unset"}, opt \in BOOLEAN, args \in ArgSets :
          /\ stack' = [stack EXCEPT ![t] = <<Frame(op, opt, args, flags)>>]
          /\ call' = [call EXCEPT ![t] = NewCall(op, args, flags)]
    /\ UNCHANGED <<vocab, flags, left>>
    /\ UNCHANGED <<jobVars, regVars, waitVars, sysVars>>

\* the calls of concurrent threads: one name each, default options
NamesMT == {"running", "stopping", "stopping_with_exception", "ggg"}

CallMT(t) ==
    /\ ~Busy(t)
    /\ left[t] > 0
    /\ \E op \in {"set", "unset"}, n \in NamesMT :
          /\ stack' = [stack EXCEPT ![t] = <<Frame(op, TRUE, {n}, flags)>>]
          /\ call' = [call EXCEPT ![t] = NewCall(op, {n}, flags)]
    /\ left' = [left EXCEPT ![t] = @ - 1]
    /\ UNCHANGED <<vocab, flags>>
    /\ UNCHANGED <<jobVars, regVars, waitVars, sysVars>>

\* a thread calls set or unset with one name, the caller keeping what its
\* previous call was given and how it ended
CallOne(t) ==
    /\ ~Busy(t)
    /\ \E op \in {"set", "unset"}, opt \in BOOLEAN, n \in ArgNames :
          /\ stack' = [stack EXCEPT ![t] = <<Frame(op, opt, {n}, flags)>>]
          /\ call' = [call EXCEPT ![t] =
                [NewCall(op, {n}, flags) EXCEPT
                    !.one = n,
                    !.last = Some([op |-> call[t].op, one |-> call[t].one,
                                   pre |-> call[t].pre, res |-> call[t].res])]]
    /\ UNCHANGED <<vocab, flags, left>>
    /\ UNCHANGED <<jobVars, regVars, waitVars, sysVars>>

\* a thread calls set or unset with one name of the tests' vocabulary
\* (test_unset), or a name that is not registered
CallTest(t) ==
    /\ ~Busy(t)
    /\ \E op \in {"set", "unset"}, opt \in BOOLEAN, n \in TestFlags \cup {"ggg"} :
          /\ stack' = [stack EXCEPT ![t] = <<Frame(op, opt, {n}, flags)>>]
          /\ call' = [call EXCEPT ![t] =
                [NewCall(op, {n}, flags) EXCEPT
                    !.one = n,
                    !.last = Some([op |-> call[t].op, one |-> call[t].one,
                                   pre |-> call[t].pre, res |-> call[t].res])]]
    /\ UNCHANGED <<vocab, flags, left>>
    /\ UNCHANGED <<jobVars, regVars, waitVars, sysVars>>

\* the job of test_set_and_unset_under_multithreading: set("aaa") or
\* unset("aaa") with the default options, any number of times in any order
CallSame(t) ==
    /\ ~Busy(t)
    /\ left[t] > 0
    /\ \E op \in {"set", "unset"} :
          /\ stack' = [stack EXCEPT ![t] = <<Frame(op, TRUE, {"aaa"}, flags)>>]
          /\ call' = [call EXCEPT ![t] =
                [NewCall(op, {"aaa"}, flags) EXCEPT !.one = "aaa"]]
    /\ left' = [left EXCEPT ![t] = @ - 1]
    /\ UNCHANGED <<vocab, flags>>
    /\ UNCHANGED <<jobVars, regVars, waitVars, sysVars>>

\* the flags threads wait for, and the calls that change them meanwhile
WaitNames == {"aaa", "eee"}
WaitArgSets ==
    {a \in SUBSET {"aaa", "ddd", "eee"} :
        1 <= Cardinality(a) /\ Cardinality(a) <= MaxArgs}

CallWait(t) ==
    /\ ~Busy(t)
    /\ \E op \in {"set", "unset"}, opt \in BOOLEAN, args \in WaitArgSets :
          /\ stack' = [stack EXCEPT ![t] = <<Frame(op, opt, args, flags)>>]
          /\ call' = [call EXCEPT ![t] = NewCall(op, args, flags)]
    /\ UNCHANGED <<vocab, flags, left>>
    /\ UNCHANGED <<jobVars, regVars, waitVars, sysVars>>

\* one of several threads sharing the group calls set or unset, while others
\* wait on it
CallShared(t) ==
    /\ ~Busy(t)
    /\ left[t] > 0
    /\ \E op \in {"set", "unset"}, opt \in BOOLEAN, args \in WaitArgSets :
          /\ stack' = [stack EXCEPT ![t] = <<Frame(op, opt, args, flags)>>]
          /\ call' = [call EXCEPT ![t] = NewCall(op, args, flags)]
    /\ left' = [left EXCEPT ![t] = @ - 1]
    /\ UNCHANGED <<vocab, flags>>
    /\ UNCHANGED <<jobVars, regVars, waitVars, sysVars>>

\* a thread enters wait or no_wait, with or without a timeout
WaitCall(w) ==
    /\ waiter[w].st # "blocked"
    /\ \E op \in {"wait", "no_wait"}, f \in WaitNames, timed \in BOOLEAN :
          StartWait(w, op, f, timed)
    /\ UNCHANGED <<fgVars, script>>
    /\ UNCHANGED <<jobVars, regVars, sysVars>>

\* a thread that makes one call of wait or no_wait
WaitOnce(w) ==
    /\ waiter[w].st = "idle"
    /\ \E op \in {"wait", "no_wait"}, f \in WaitNames, timed \in BOOLEAN :
          StartWait(w, op, f, timed)
    /\ UNCHANGED <<fgVars, script>>
    /\ UNCHANGED <<jobVars, regVars, sysVars>>

\* a notified thread has the lock again and wait_for evaluates the predicate
Wake(w) ==
    /\ waiter[w].st = "blocked" /\ waiter[w].notified
    /\ waiter' = [waiter EXCEPT ![w] =
          IF Predicate(waiter[w].op, waiter[w].flag, flags)
          THEN Returned(w, flags, "notify")
          ELSE [waiter[w] EXCEPT !.notified = FALSE]]
    /\ UNCHANGED <<fgVars, script>>
    /\ UNCHANGED <<jobVars, regVars, sysVars>>

\* the timeout elapses: wait_for evaluates the predicate once more and
\* returns its value
Timeout(w) ==
    /\ waiter[w].st = "blocked" /\ waiter[w].timed
    /\ waiter' = [waiter EXCEPT ![w] = Returned(w, flags, "timeout")]
    /\ UNCHANGED <<fgVars, script>>
    /\ UNCHANGED <<jobVars, regVars, sysVars>>

\* the next call of a thread body: set / unset of one name, or wait /
\* no_wait without a timeout
ScriptStep(t) ==
    /\ script[t] # <<>>
    /\ ~Busy(t) /\ waiter[t].st # "blocked"
    /\ LET c == Head(script[t])
       IN IF c.op \in {"set", "unset"}
          THEN /\ stack' = [stack EXCEPT ![t] = <<Frame(c.op, TRUE, {c.flag}, flags)>>]
               /\ call' = [call EXCEPT ![t] = NewCall(c.op, {c.flag}, flags)]
               /\ UNCHANGED waiter
          ELSE /\ StartWait(t, c.op, c.flag, FALSE)
               /\ UNCHANGED <<stack, call>>
    /\ script' = [script EXCEPT ![t] = Tail(@)]
    /\ UNCHANGED <<vocab, flags, left>>
    /\ UNCHANGED <<jobVars, regVars, sysVars>>

\* the threads that may wait, none of them waiting
WaitInit(ws) ==
    /\ waiter = [w \in ws |-> NoWait]
    /\ script = [w \in ws |-> <<>>]

\* FlagGroup.__init__ with no flags, and the threads that will use the group
FgInit(v, ths, budget) ==
    /\ vocab = v
    /\ flags = {}
    /\ stack = [t \in ths |-> <<>>]
    /\ call = [t \in ths |-> [NewCall("set", {}, {}) EXCEPT !.res = "idle"]]
    /\ left = [t \in ths |-> budget]

\* ---- FlagGroup.register -----------------------------------------------------
\* the members a caller may register: a name of the test vocabulary whose
\* parents are any set of the other names, or its own name alone
RegNames == {"aaa", "bbb", "ccc"}
RegFlags ==
    {f \in [name : RegNames, parents : SUBSET RegNames] :
        f.name \in f.parents => f.parents = {f.name}}
Batches == UNION {[1..n -> RegFlags] : n \in 1..MaxBatch}

BatchSet(batch) == {batch[k] : k \in 1..Len(batch)}
RegisteredNames(regd) == {f.name : f \in regd}

\* _check_parent: every parent name of every member of the batch names a
\* member of the batch or a registered member
ParentsValid(batch, regd) ==
    \A f \in BatchSet(batch) :
        f.parents \subseteq RegisteredNames(regd) \cup RegisteredNames(BatchSet(batch))

\* _check_flag_conflict: a name of the member is already registered
NameConflict(f, regd) == f.name \in RegisteredNames(regd)

\* get_flag(parent, flags) raises "unknown name": neither a registered member
\* nor a member of the batch has that name
RegUnknown(n, batch, regd) ==
    n \notin RegisteredNames(regd) \cup RegisteredNames(BatchSet(batch))

\* get_flag(parent, flags): the registered member of that name, else the
\* first member of the batch of that name
RegGetFlag(n, batch, regd) ==
    IF n \in RegisteredNames(regd)
    THEN CHOOSE f \in regd : f.name = n
    ELSE batch[CHOOSE k \in 1..Len(batch) :
                   /\ batch[k].name = n
                   /\ \A j \in 1..(k - 1) : batch[j].name # n]

\* _check_loop's visit: mark the member, then walk its parents; a parent
\* that is already marked is reported as a loop and ends the walk of this
\* member's parents; a parent get_flag does not find raises. Marks are never
\* taken back. The parents are a frozenset, walked in any order: the result
\* is the set of the states the walk can end in.
RECURSIVE Visit(_, _, _, _)
RECURSIVE VisitParents(_, _, _, _)
VisitParents(ps, st, batch, regd) ==
    IF st.unknown \/ ps = {} THEN {st}
    ELSE UNION {
        IF RegUnknown(p, batch, regd)
        THEN {[st EXCEPT !.unknown = TRUE]}
        ELSE LET pf == RegGetFlag(p, batch, regd)
             IN IF pf.name \in st.seen
                THEN {[st EXCEPT !.loop = TRUE]}
                ELSE UNION {VisitParents(ps \ {p}, st2, batch, regd) :
                               st2 \in Visit(pf, st, batch, regd)}
        : p \in ps}
Visit(f, st, batch, regd) ==
    VisitParents(f.parents, [st EXCEPT !.seen = @ \cup {f.name}], batch, regd)

\* how _check_loop(flag, flags) can end: "ok", the circular reference error
\* ("loop") or get_flag's error ("unknown")
CheckLoop(f, batch, regd) ==
    {IF st.unknown THEN "unknown" ELSE IF st.loop THEN "loop" ELSE "ok" :
        st \in Visit(f, [seen |-> {}, loop |-> FALSE, unknown |-> FALSE], batch, regd)}

\* register's loop from the i-th member of the batch on: the conflict check,
\* the loop check and the add of each member in turn; the registries and
\* outcomes it can end with
RECURSIVE RegisterFrom(_, _, _)
RegisterFrom(i, batch, regd) ==
    IF i > Len(batch) THEN {[registered |-> regd, res |-> "ok", why |-> ""]}
    ELSE LET f == batch[i]
         IN IF NameConflict(f, regd)
            THEN {[registered |-> regd, res |-> "failed", why |-> "conflict"]}
            ELSE UNION {
                IF o = "ok" THEN RegisterFrom(i + 1, batch, regd \cup {f})
                ELSE {[registered |-> regd, res |-> "failed", why |-> o]}
                : o \in CheckLoop(f, batch, regd)}

\* register(flags): _check_parent over the whole batch, then the loop
Register ==
    /\ \E batch \in Batches :
          IF ParentsValid(batch, registered)
          THEN \E r \in RegisterFrom(1, batch, registered) :
                  /\ registered' = r.registered
                  /\ reg' = [pre |-> registered, res |-> r.res, why |-> r.why]
          ELSE /\ registered' = registered
               /\ reg' = [pre |-> registered, res |-> "failed", why |-> "invalid"]
    /\ UNCHANGED <<jobVars, fgVars, waitVars, sysVars>>

\* a class that has registered nothing yet
RegInit ==
    /\ registered = {}
    /\ reg = [pre |-> {}, res |-> "idle", why |-> ""]

\* ---- IndexFetcherMonitor ---------------------------------------------------
MonJobs == DOMAIN mjobs

\* JobStatusData.process_deque = deque(maxlen=60)
DequeMaxLen == 60

\* deque.append on a deque with maxlen: the oldest sample is dropped
DequeAppend(q, x) == IF Len(q) = DequeMaxLen THEN Append(Tail(q), x) ELSE Append(q, x)

\* the defaults of the fields of a new JobStatusData; h and a count the
\* job's "IndexJob.handling" and "IndexJob.handled" events from then on
NewStatusData ==
    [total_count_of_indexes |-> 1, total_count_of_valid_indexes |-> 1, h |-> 0, a |-> 0]

\* the deque behind job j's JobStatusData.process_deque: a dataclass default
\* is one object, shared by every instance
ProcessDequeOf(j) == process_deque

\* BaseJob.working
Working(j) == mjobs[j].st = "running"

\* the jobs in the order _tick visits them: fetcher by fetcher
TickOrder == <<"j1", "j2">>

\* the body of the loop of _tick for one job
TickJob(st, j) ==
    IF j \in DOMAIN st.monitored
    THEN [st EXCEPT !.deque = DequeAppend(@, [job |-> j, p |-> mjobs[j].processed])]
    ELSE [st EXCEPT !.monitored = [k \in DOMAIN @ \cup {j} |->
                                     IF k = j THEN NewStatusData ELSE @[k]]]

RECURSIVE TickFrom(_, _)
TickFrom(st, n) ==
    IF n > Len(TickOrder) THEN st
    ELSE LET j == TickOrder[n]
         IN  IF j \in MonJobs /\ mjobs[j].st # "pending"
             THEN TickFrom(TickJob(st, j), n + 1)
             ELSE TickFrom(st, n + 1)

\* IndexFetcherMonitor._tick over fetcher.jobs of every fetcher
Tick ==
    /\ ticks < MaxTicks
    /\ ticks' = ticks + 1
    /\ LET st == TickFrom([monitored |-> monitored_jobs, deque |-> process_deque], 1)
       IN  /\ monitored_jobs' = st.monitored
           /\ process_deque' = st.deque
    /\ UNCHANGED <<mjobs, reader>>
    /\ UNCHANGED <<jobVars, fgVars, regVars, waitVars, fetVars>>

\* IndexFetcher.start: the fetcher's jobs are created and submitted
StartFetcher(f) ==
    /\ \E j \in MonJobs : mjobs[j].fetcher = f /\ mjobs[j].st = "pending"
    /\ mjobs' = [j \in MonJobs |->
                   IF mjobs[j].fetcher = f THEN [mjobs[j] EXCEPT !.st = "running"]
                   ELSE mjobs[j]]
    /\ UNCHANGED <<monitored_jobs, process_deque, ticks, reader>>
    /\ UNCHANGED <<jobVars, fgVars, regVars, waitVars, fetVars>>

\* the handling_trigger / handled_trigger listeners that _tick has put on
\* the emitter job j emits on: one per job seen that emits there
Listeners(j) ==
    Cardinality({k \in DOMAIN monitored_jobs : mjobs[k].emitter = mjobs[j].emitter})

\* one probe of job j: "IndexJob.handling", then "IndexJob.handled" when the
\* handler accepts; every listener adds one to the counter of the sender
MonProbe(j) ==
    /\ Working(j)
    /\ j \in DOMAIN monitored_jobs => monitored_jobs[j].h < MaxProbes
    /\ \E accepted \in BOOLEAN, d \in {0, 1} :
          /\ mjobs[j].processed + d <= MaxProg
          /\ mjobs' = [mjobs EXCEPT ![j].processed = @ + d]
          /\ IF j \in DOMAIN monitored_jobs
             THEN monitored_jobs' =
                    [monitored_jobs EXCEPT
                       ![j].total_count_of_indexes = @ + Listeners(j),
                       ![j].total_count_of_valid_indexes =
                            IF accepted THEN @ + Listeners(j) ELSE @,
                       ![j].h = @ + 1,
                       ![j].a = IF accepted THEN @ + 1 ELSE @]
             ELSE UNCHANGED monitored_jobs
    /\ UNCHANGED <<process_deque, ticks, reader>>
    /\ UNCHANGED <<jobVars, fgVars, regVars, waitVars, fetVars>>

\* the run of job j ends
MonStop(j) ==
    /\ Working(j)
    /\ mjobs' = [mjobs EXCEPT ![j].st = "stopped"]
    /\ UNCHANGED <<monitored_jobs, process_deque, ticks, reader>>
    /\ UNCHANGED <<jobVars, fgVars, regVars, waitVars, fetVars>>

\* remaining_time with its first two tests in the other order
RemainingTimeWindowFirst(j) ==
    LET q == ProcessDequeOf(j)
    IN  IF Len(q) < 2 THEN "max"
        ELSE IF ~Working(j) THEN "None"
        ELSE IF q[Len(q)].p - q[1].p = 0 THEN "max"
        ELSE IF q[Len(q)].p - q[1].p < 0 /\ mjobs[j].processed < MaxProg THEN "negative"
        ELSE "computed"

\* JobStatusData.remaining_time: None, timedelta.max, or a time computed
\* from the mean of the differences of consecutive samples, which is the
\* last sample minus the first over the number of differences; the time is
\* negative when the mean is and the job has not processed everything
RemainingTime(j) ==
    LET q == ProcessDequeOf(j)
    IN  IF ~Working(j) THEN "None"
        ELSE IF Len(q) < 2 THEN "max"
        ELSE IF q[Len(q)].p - q[1].p = 0 THEN "max"
        ELSE IF q[Len(q)].p - q[1].p < 0 /\ mjobs[j].processed < MaxProg THEN "negative"
        ELSE "computed"

\* ---- IndexFetcherMonitor: a read of processed or average_speed ---------------
NoReader == [pc |-> "idle", kind |-> "", rest |-> <<>>, size |-> 0, cur |-> "",
             acc |-> <<>>, result |-> ""]

\* the monitored jobs in the order of the dict, as a sequence
RECURSIVE KeysFrom(_)
KeysFrom(n) ==
    IF n > Len(TickOrder) THEN <<>>
    ELSE IF TickOrder[n] \in DOMAIN monitored_jobs
         THEN <<TickOrder[n]>> \o KeysFrom(n + 1)
         ELSE KeysFrom(n + 1)

\* the property is read: the generator over self._monitored_jobs.values() is made
ReadBegin ==
    /\ reader.pc = "idle"
    /\ \E kind \in {"processed", "average_speed"} :
          reader' = [NoReader EXCEPT !.pc = "iter", !.kind = kind,
                                     !.rest = KeysFrom(1),
                                     !.size = Cardinality(DOMAIN monitored_jobs)]
    /\ UNCHANGED <<mjobs, monitored_jobs, process_deque, ticks>>
    /\ UNCHANGED <<jobVars, fgVars, regVars, waitVars, fetVars>>

\* what statistics.mean makes of the values it was given
MeanOf(acc) ==
    IF \E k \in 1..Len(acc) : acc[k] = "None" THEN "TypeError"
    ELSE IF acc = <<>> THEN "None"
    ELSE "mean"

\* the generator is asked for its next value: the dict iterator raises
\* RuntimeError when the dict has changed size; otherwise the next record is
\* taken and the filter `job_status_data.job.working` is evaluated, and at the
\* end of the dict statistics.mean computes (StatisticsError gives None)
ReadNext ==
    /\ reader.pc = "iter"
    /\ IF Cardinality(DOMAIN monitored_jobs) # reader.size
       THEN reader' = [reader EXCEPT !.pc = "done", !.result = "RuntimeError"]
       ELSE IF reader.rest = <<>>
       THEN reader' = [reader EXCEPT !.pc = "done", !.result = MeanOf(reader.acc)]
       ELSE IF Working(Head(reader.rest))
       THEN reader' = [reader EXCEPT !.pc = "eval", !.cur = Head(reader.rest),
                                     !.rest = Tail(reader.rest)]
       ELSE reader' = [reader EXCEPT !.rest = Tail(reader.rest)]
    /\ UNCHANGED <<mjobs, monitored_jobs, process_deque, ticks>>
    /\ UNCHANGED <<jobVars, fgVars, regVars, waitVars, fetVars>>

\* the value of the record that passed the filter is evaluated:
\* JobStatusData.processed is always a number, JobStatusData.average_speed
\* is None when the job is not working
ReadEval ==
    /\ reader.pc = "eval"
    /\ reader' = [reader EXCEPT
                    !.pc = "iter",
                    !.acc = Append(@, IF reader.kind = "average_speed" /\ ~Working(reader.cur)
                                      THEN "None" ELSE "number")]
    /\ UNCHANGED <<mjobs, monitored_jobs, process_deque, ticks>>
    /\ UNCHANGED <<jobVars, fgVars, regVars, waitVars, fetVars>>

\* a monitor that has not ticked yet, over jobs js of fetchers given by fs;
\* job.emitter is the job's own emitter or the emitter of its fetcher
MonInitOn(js, fs, own) ==
    /\ mjobs = [j \in js |-> [fetcher |-> fs[j], st |-> "pending", processed |-> 0,
                               emitter |-> IF own THEN j ELSE fs[j]]]
    /\ monitored_jobs = <<>>
    /\ process_deque = <<>>
    /\ ticks = 0
    /\ reader = NoReader

MonInit(js, fs) ==
    /\ mjobs = [j \in js |-> [fetcher |-> fs[j], st |-> "pending", processed |-> 0,
                               emitter |-> j]]
    /\ monitored_jobs = <<>>
    /\ process_deque = <<>>
    /\ ticks = 0
    /\ reader = NoReader

\* ---- IndexFetcher -----------------------------------------------------------
Abs(x) == IF x < 0 THEN 0 - x ELSE x

\* the number of indices begin, begin + step, ... within [begin, end]
IndexCount(b, e, st) == IF st = 0 THEN 1 ELSE (Abs(e - b) \div Abs(st)) + 1

\* math.ceil(a / b) for positive b
CeilDiv(a, b) == (a + b - 1) \div b

RECURSIVE SumSeq(_)
SumSeq(ws) == IF ws = <<>> THEN 0 ELSE Head(ws) + SumSeq(Tail(ws))

\* a chunk that ends on the first index of the next one
ChunkToNext(b, st, first, size) ==
    [begin |-> b + st * first, end |-> b + st * (first + size), step |-> st]

\* the chunk of size indices that starts at the index number first (from 0)
Chunk(b, st, first, size) ==
    [begin |-> b + st * first, end |-> b + st * (first + size - 1), step |-> st]

\* the size of a chunk that is not the last: ceiling division per weight,
\* and never more than is left
SizeCeil(n, w, W, rest) == Min(CeilDiv(n * w, W), rest)

\* chunk i and the chunks after it, done indices being in earlier chunks;
\* the last chunk takes what is left, and a chunk with no index is not made
RECURSIVE ChunksFrom(_, _, _, _, _, _)
ChunksFrom(b, st, n, ws, i, done) ==
    IF i > Len(ws) THEN <<>>
    ELSE LET size == IF i = Len(ws) THEN n - done
                     ELSE SizeCeil(n, ws[i], SumSeq(ws), n - done)
         IN  IF size = 0 THEN ChunksFrom(b, st, n, ws, i + 1, done)
             ELSE <<Chunk(b, st, done, size)>> \o ChunksFrom(b, st, n, ws, i + 1, done + size)

\* the thread count test of job_iter with the length test left out
DegradedNoLength(n, ws) == Len(ws) <= 1

\* a range shorter than the number of weights, or at most one weight: one chunk
Degraded(n, ws) == Len(ws) <= 1 \/ n < Len(ws)

\* IndexFetcher.job_iter
job_iter(b, e, st, ws) ==
    LET n == IndexCount(b, e, st)
    IN  IF Degraded(n, ws) THEN <<Chunk(b, st, 0, n)>>
        ELSE ChunksFrom(b, st, n, ws, 1, 0)

\* IndexFetcher.start: one job per chunk of job_iter, pending -> running
FetcherStart ==
    /\ "pending" \in fetcher_flag
    /\ jobs' = job_iter(fetcher.begin, fetcher.end, fetcher.step, fetcher.thread_weights)
    /\ fetcher_flag' = (fetcher_flag \ {"pending"}) \cup {"running"}
    /\ UNCHANGED fetcher
    /\ UNCHANGED <<jobVars, fgVars, regVars, waitVars, monVars>>

\* IndexJob.run lets an exception out only in `except AssertionError`; every
\* other exception ends the run inside run()
RunRaises(err) == err = "AssertionError"

\* the exception held by the completion handle of the job: the one run()
\* raised in the worker thread, if any
FutureException == IF pc = "stopped" /\ RunRaises(err_info) THEN err_info ELSE ""

\* IndexFetcher.join once the job is complete: the exception it raises, ""
\* when it returns
JoinRaises == IF pc = "stopped" THEN FutureException ELSE ""

\* IndexFetcher.stop after it has called cancel() on every job: join, then
\* the fetcher's flag goes from running to stopping
FetcherStopReturn ==
    /\ canceller.st = "done"
    /\ pc = "stopped"
    /\ JoinRaises = ""
    /\ "stopping" \notin fetcher_flag
    /\ fetcher_flag' = (fetcher_flag \ {"running"}) \cup {"stopping"}
    /\ UNCHANGED <<fetcher, jobs>>
    /\ UNCHANGED <<jobVars, fgVars, regVars, waitVars, monVars>>

\* a fetcher over (b, e, st) without weights after start(): its one job
\* waits in the worker pool
FetInitStarted(b, e, st) ==
    /\ fetcher = [begin |-> b, end |-> e, step |-> st, thread_weights |-> <<>>]
    /\ jobs = job_iter(b, e, st, <<>>)
    /\ fetcher_flag = {"running"}

\* a fetcher over (b, e, st) with the weights ws, before start()
FetInitWith(b, e, st, ws) ==
    /\ fetcher = [begin |-> b, end |-> e, step |-> st, thread_weights |-> ws]
    /\ jobs = <<>>
    /\ fetcher_flag = {"pending"}

FetInit == FetInitWith(0, 0, 1, <<>>)

\* ---- IndexJob: specifications ---------------------------------------------
Steps == (0 - MaxStep)..MaxStep

JobInitAll(b, e, st, R, S, F, c) ==
    /\ faulty = F
    /\ handler_calls = 0
    /\ checked = FALSE
    /\ canceller = [NoCanceller EXCEPT !.st = c]
    /\ reruns = 0
    /\ stoppers = S
    /\ err_info = ""
    /\ span = [begin |-> b, end |-> e, step |-> st]
    /\ rejected = R
    /\ job_span = [begin |-> b, end |-> e, step |-> st]
    /\ current = None
    /\ worked_span = None
    /\ flag = {"pending"}
    /\ break_point_span = None
    /\ break_point_current = None
    /\ first_unaccepted = None
    /\ pc = "pending"
    /\ iter = [i |-> 0, k |-> 0]
    /\ emitted = <<>>

JobInitWith(b, e, st, R, S, c) == JobInitAll(b, e, st, R, S, {}, c)

JobInit(b, e, st, R) == JobInitWith(b, e, st, R, {}, "off")

Init ==
    /\ \E b \in 0..MaxIdx, e \in 0..MaxIdx, st \in Steps :
          /\ StepSpanValid(b, e, st)
          /\ \E R \in SUBSET (Min(b, e)..Max(b, e)) : JobInit(b, e, st, R)
    /\ FgInit("task", {}, 0)
    /\ RegInit
    /\ MonInit({}, {})
    /\ FetInit
    /\ WaitInit({})

Next == Run \/ StepSwitch \/ TryCancel \/ StepProbe \/ LeapProbe

Spec == Init /\ [][Next]_vars

\* the thread that called run() keeps executing it: every statement of the
\* loop returns and the next one is taken
SpecRuns == Init /\ [][Next]_vars /\ WF_vars(Next)

\* a job without end (end = None), followed as far as MaxIdx indices from
\* its begin
InitUnbounded ==
    /\ \E b \in 0..MaxIdx, st \in Steps \ {0} :
          \E R \in SUBSET (IF st < 0 THEN (b - MaxIdx)..b ELSE b..(b + MaxIdx)) :
              JobInit(b, InfiniteEnd(st), st, R)
    /\ FgInit("task", {}, 0)
    /\ RegInit
    /\ MonInit({}, {})
    /\ FetInit
    /\ WaitInit({})

NearBegin(o) == o = None \/ (span.begin - MaxIdx <= Val(o) /\ Val(o) <= span.begin + MaxIdx)

NextUnbounded ==
    /\ Next
    /\ NearBegin(current')
    /\ span.begin - MaxIdx <= iter'.i /\ iter'.i <= span.begin + MaxIdx

SpecUnbounded == InitUnbounded /\ [][NextUnbounded]_vars

\* a job and a second thread that calls cancel() at any moment; run() may
\* be called again once the job has stopped
InitCancel ==
    /\ \E b \in 0..MaxIdx, e \in 0..MaxIdx, st \in Steps :
          /\ StepSpanValid(b, e, st)
          /\ \E R \in SUBSET (Min(b, e)..Max(b, e)) :
                JobInitWith(b, e, st, R, {}, "idle")
    /\ FgInit("task", {}, 0)
    /\ RegInit
    /\ MonInit({}, {})
    /\ FetInit
    /\ WaitInit({})

NextCancel ==
    \/ Run
    \/ StepSwitch
    \/ TryCancel
    \/ StepProbe
    \/ LeapProbe
    \/ CancelSub
    \/ CancelAdd
    \/ RunAgain

SpecCancel == InitCancel /\ [][NextCancel]_vars

\* a job whose handler raises ExplicitlyStopHandlingError at some indices
\* and ExplicitlySkipHandlingError at others
InitStop ==
    /\ \E b \in 0..MaxIdx, e \in 0..MaxIdx, st \in Steps :
          /\ StepSpanValid(b, e, st)
          /\ \E R \in SUBSET (Min(b, e)..Max(b, e)) :
                \E S \in SUBSET ((Min(b, e)..Max(b, e)) \ R) :
                   JobInitWith(b, e, st, R, S, "off")
    /\ FgInit("task", {}, 0)
    /\ RegInit
    /\ MonInit({}, {})
    /\ FetInit
    /\ WaitInit({})

SpecStop == InitStop /\ [][Next]_vars

\* a job whose handler, at each index, returns, raises
\* ExplicitlySkipHandlingError, raises ExplicitlyStopHandlingError or raises
\* some other exception
InitProbe ==
    /\ \E b \in 0..MaxIdx, e \in 0..MaxIdx, st \in Steps :
          /\ StepSpanValid(b, e, st)
          /\ \E R \in SUBSET (Min(b, e)..Max(b, e)) :
                \E S \in SUBSET ((Min(b, e)..Max(b, e)) \ R) :
                   \E F \in SUBSET ((Min(b, e)..Max(b, e)) \ (R \cup S)) :
                      JobInitAll(b, e, st, R, S, F, "off")
    /\ FgInit("task", {}, 0)
    /\ RegInit
    /\ MonInit({}, {})
    /\ FetInit
    /\ WaitInit({})

SpecProbe == InitProbe /\ [][Next]_vars

\* the ranges of test_jump_back with step 1 and -1, every rejection set
InitJumpBack ==
    /\ \E b \in {TestLo, TestHi}, e \in {TestLo, TestHi} :
          /\ b # e
          /\ \E R \in SUBSET (TestLo..TestHi) :
                JobInit(b, e, IF b < e THEN 1 ELSE 0 - 1, R)
    /\ FgInit("task", {}, 0)
    /\ RegInit
    /\ MonInit({}, {})
    /\ FetInit
    /\ WaitInit({})

SpecJumpBack == InitJumpBack /\ [][Next]_vars

\* ---- FlagGroup: specifications -------------------------------------------------
\* one thread making any sequence of set / unset calls on a group of either class
InitFlag ==
    /\ JobInit(0, 0, 1, {})
    /\ \E v \in {"task", "index"} : FgInit(v, {"t1"}, 0)
    /\ RegInit
    /\ MonInit({}, {})
    /\ FetInit
    /\ WaitInit({})

NextFlag ==
    \/ \E t \in Threads : Call(t)
    \/ \E t \in Threads : Pick(t)
    \/ \E t \in Threads : Return(t)
    \/ \E t \in Threads : ParentStep(t)
    \/ \E t \in Threads : Check(t)
    \/ \E t \in Threads : Add(t)
    \/ \E t \in Threads : ChildStep(t)
    \/ \E t \in Threads : Remove(t)
    \/ \E t \in Threads : Raise(t)

SpecFlag == InitFlag /\ [][NextFlag]_vars

\* two threads, each making up to MaxCallsMT calls on one TaskFlagGroup
InitFlagMT ==
    /\ JobInit(0, 0, 1, {})
    /\ FgInit("task", {"t1", "t2"}, MaxCallsMT)
    /\ RegInit
    /\ MonInit({}, {})
    /\ FetInit
    /\ WaitInit({})

NextFlagMT ==
    \/ \E t \in Threads : CallMT(t)
    \/ \E t \in Threads : Pick(t)
    \/ \E t \in Threads : Return(t)
    \/ \E t \in Threads : ParentStep(t)
    \/ \E t \in Threads : Check(t)
    \/ \E t \in Threads : Add(t)
    \/ \E t \in Threads : ChildStep(t)
    \/ \E t \in Threads : Remove(t)
    \/ \E t \in Threads : Raise(t)

SpecFlagMT == InitFlagMT /\ [][NextFlagMT]_vars

\* three pool threads, each making up to MaxCallsMT calls of set("aaa") or
\* unset("aaa") on one FlagGroup; a set of a member without parents never
\* enters the parent loop, an unset of a member nothing depends on never
\* enters the nested unset
InitSame ==
    /\ JobInit(0, 0, 1, {})
    /\ FgInit("test", {"t1", "t2", "t3"}, MaxCallsMT)
    /\ RegInit
    /\ MonInit({}, {})
    /\ FetInit
    /\ WaitInit({})

NextSame ==
    \/ \E t \in Threads : CallSame(t)
    \/ \E t \in Threads : Pick(t)
    \/ \E t \in Threads : Return(t)
    \/ \E t \in Threads : Check(t)
    \/ \E t \in Threads : Add(t)
    \/ \E t \in Threads : Remove(t)

SpecSame == InitSame /\ [][NextSame]_vars

\* one thread making any sequence of single-name set / unset calls
NextRoundTrip ==
    \/ \E t \in Threads : CallOne(t)
    \/ \E t \in Threads : Pick(t)
    \/ \E t \in Threads : Return(t)
    \/ \E t \in Threads : ParentStep(t)
    \/ \E t \in Threads : Check(t)
    \/ \E t \in Threads : Add(t)
    \/ \E t \in Threads : ChildStep(t)
    \/ \E t \in Threads : Remove(t)
    \/ \E t \in Threads : Raise(t)

SpecRoundTrip == InitFlag /\ [][NextRoundTrip]_vars

\* one thread making single-name set / unset calls on a group of the tests'
\* vocabulary, in which fff depends on eee and eee on ddd
InitCascade ==
    /\ JobInit(0, 0, 1, {})
    /\ FgInit("test", {"t1"}, 0)
    /\ RegInit
    /\ MonInit({}, {})
    /\ FetInit
    /\ WaitInit({})

NextCascade ==
    \/ \E t \in Threads : CallTest(t)
    \/ \E t \in Threads : Pick(t)
    \/ \E t \in Threads : Return(t)
    \/ \E t \in Threads : ParentStep(t)
    \/ \E t \in Threads : Check(t)
    \/ \E t \in Threads : Add(t)
    \/ \E t \in Threads : ChildStep(t)
    \/ \E t \in Threads : Remove(t)
    \/ \E t \in Threads : Raise(t)

SpecCascade == InitCascade /\ [][NextCascade]_vars

\* one thread making set / unset calls on a group of the tests' vocabulary
\* while another waits
InitWait ==
    /\ JobInit(0, 0, 1, {})
    /\ FgInit("test", {"t1"}, 0)
    /\ RegInit
    /\ MonInit({}, {})
    /\ FetInit
    /\ WaitInit({"w1"})

NextWait ==
    \/ \E t \in Threads : CallWait(t)
    \/ \E t \in Threads : Pick(t)
    \/ \E t \in Threads : Return(t)
    \/ \E t \in Threads : ParentStep(t)
    \/ \E t \in Threads : Check(t)
    \/ \E t \in Threads : Add(t)
    \/ \E t \in Threads : ChildStep(t)
    \/ \E t \in Threads : Remove(t)
    \/ \E t \in Threads : Raise(t)
    \/ \E w \in Waiters : WaitCall(w)
    \/ \E w \in Waiters : Wake(w)
    \/ \E w \in Waiters : Timeout(w)

SpecWait == InitWait /\ [][NextWait]_vars

\* two threads, each making up to MaxShared calls of set / unset on one
\* FlagGroup, and a third that makes one call of wait or no_wait on it
InitShared ==
    /\ JobInit(0, 0, 1, {})
    /\ FgInit("test", {"t1", "t2"}, MaxShared)
    /\ RegInit
    /\ MonInit({}, {})
    /\ FetInit
    /\ WaitInit({"w1"})

NextShared ==
    \/ \E t \in Threads : CallShared(t)
    \/ \E t \in Threads : Pick(t)
    \/ \E t \in Threads : Return(t)
    \/ \E t \in Threads : ParentStep(t)
    \/ \E t \in Threads : Check(t)
    \/ \E t \in Threads : Add(t)
    \/ \E t \in Threads : ChildStep(t)
    \/ \E t \in Threads : Remove(t)
    \/ \E t \in Threads : Raise(t)
    \/ \E w \in Waiters : WaitOnce(w)
    \/ \E w \in Waiters : Wake(w)
    \/ \E w \in Waiters : Timeout(w)

SpecShared == InitShared /\ [][NextShared]_vars

\* the two threads of test_no_wait (the group starts empty) and of test_wait
\* (the group starts as FlagGroup("aaa|bbb"))
Do(op, f) == [op |-> op, flag |-> f]
ScriptNoWait ==
    [foo |-> <<Do("set", "aaa"), Do("no_wait", "bbb")>>,
     bar |-> <<Do("no_wait", "aaa"), Do("set", "bbb")>>]
ScriptWait ==
    [foo |-> <<Do("unset", "aaa"), Do("wait", "bbb")>>,
     bar |-> <<Do("wait", "aaa"), Do("unset", "bbb")>>]

InitWaitTest ==
    /\ JobInit(0, 0, 1, {})
    /\ RegInit
    /\ MonInit({}, {})
    /\ FetInit
    /\ vocab = "test"
    /\ stack = [t \in {"foo", "bar"} |-> <<>>]
    /\ call = [t \in {"foo", "bar"} |-> [NewCall("set", {}, {}) EXCEPT !.res = "idle"]]
    /\ left = [t \in {"foo", "bar"} |-> 0]
    /\ waiter = [t \in {"foo", "bar"} |-> NoWait]
    /\ \/ flags = {} /\ script = ScriptNoWait
       \/ flags = {"aaa", "bbb"} /\ script = ScriptWait

\* the members the two threads use have no parents and no dependents, and
\* their calls never fail
NextWaitTest ==
    \/ \E t \in Threads : ScriptStep(t)
    \/ \E t \in Threads : Pick(t)
    \/ \E t \in Threads : Return(t)
    \/ \E t \in Threads : Check(t)
    \/ \E t \in Threads : Add(t)
    \/ \E t \in Threads : Remove(t)
    \/ \E w \in Waiters : Wake(w)

\* both threads are started and joined: each runs whenever it can
SpecWaitTest == InitWaitTest /\ [][NextWaitTest]_vars /\ WF_vars(NextWaitTest)


\* ---- FlagGroup.register: specification -----------------------------------------
InitRegister ==
    /\ JobInit(0, 0, 1, {})
    /\ FgInit("task", {}, 0)
    /\ RegInit
    /\ MonInit({}, {})
    /\ FetInit
    /\ WaitInit({})

NextRegister == Register

SpecRegister == InitRegister /\ [][NextRegister]_vars

\* ---- IndexFetcherMonitor: specification -----------------------------------
\* two jobs, of one fetcher or of two fetchers that are started separately
InitMonitor ==
    /\ JobInit(0, 0, 1, {})
    /\ FgInit("task", {}, 0)
    /\ RegInit
    /\ WaitInit({})
    /\ \E f2 \in {"f1", "f2"}, own \in BOOLEAN :
          MonInitOn({"j1", "j2"}, [j \in {"j1", "j2"} |-> IF j = "j1" THEN "f1" ELSE f2], own)
    /\ FetInit

NextMonitor ==
    \/ \E f \in {"f1", "f2"} : StartFetcher(f)
    \/ \E j \in MonJobs : MonProbe(j)
    \/ \E j \in MonJobs : MonStop(j)
    \/ Tick

SpecMonitor == InitMonitor /\ [][NextMonitor]_vars

\* the monitor, its jobs, and a thread that reads a property of the monitor
NextMonitorRead ==
    \/ NextMonitor
    \/ ReadBegin
    \/ ReadNext
    \/ ReadEval

SpecMonitorRead == InitMonitor /\ [][NextMonitorRead]_vars

\* ---- IndexFetcher.stop: specification ----------------------------------------
\* a started fetcher with one job, and a thread that calls stop()
InitFetcherStop ==
    /\ \E b \in 0..MaxIdx, e \in 0..MaxIdx, st \in Steps :
          /\ StepSpanValid(b, e, st)
          /\ FetInitStarted(b, e, st)
          /\ \E R \in SUBSET (Min(b, e)..Max(b, e)) :
                JobInitWith(b, e, st, R, {}, "idle")
    /\ FgInit("task", {}, 0)
    /\ RegInit
    /\ WaitInit({})
    /\ MonInit({}, {})

NextFetcherStop ==
    \/ Run
    \/ StepSwitch
    \/ TryCancel
    \/ StepProbe
    \/ LeapProbe
    \/ CancelSub
    \/ CancelAdd
    \/ FetcherStopReturn

SpecFetcherStop == InitFetcherStop /\ [][NextFetcherStop]_vars

\* ---- IndexFetcher.job_iter: specification -----------------------------------
WeightLists == UNION {[1..k -> 1..MaxWeight] : k \in 0..MaxWeights}

\* test_job_iter_sample
SampleInputs ==
    {<<0, 99, 1, <<1, 1>>>>, <<0, 99, 1, <<1, 2>>>>,
     <<99, 0, -1, <<1, 1>>>>, <<99, 0, -1, <<1, 2>>>>}

FetchInputs ==
    {<<b, e, st, ws>> \in (0..MaxFetch) \X (0..MaxFetch) \X Steps \X WeightLists :
        StepSpanValid(b, e, st)} \cup SampleInputs

InitJobIter ==
    /\ JobInit(0, 0, 1, {})
    /\ FgInit("task", {}, 0)
    /\ RegInit
    /\ WaitInit({})
    /\ MonInit({}, {})
    /\ \E x \in FetchInputs : FetInitWith(x[1], x[2], x[3], x[4])

NextJobIter == FetcherStart

SpecJobIter == InitJobIter /\ [][NextJobIter]_vars

\* ---- IndexJob: what the emitter saw ---------------------------------------
Handling == SelectSeq(emitted, LAMBDA e : e.name = "handling")
Handled == SelectSeq(emitted, LAMBDA e : e.name = "handled")
Indices(evs) == [k \in 1..Len(evs) |-> Val(evs[k].cur)]
Count(evs, i) == Cardinality({k \in 1..Len(evs) : Val(evs[k].cur) = i})
Range == MinVal(span)..MaxVal(span)
Between(x, a, b) == Min(a, b) <= x /\ x <= Max(a, b)
Last(seq) == seq[Len(seq)]

\* the phase a probe was made in, from the flags present at its events
Phase(f) ==
    IF "reverse" \in f
    THEN (IF "leaping" \in f THEN "reverse_leaping" ELSE "reverse_stepping")
    ELSE (IF "leaping" \in f THEN "leaping" ELSE "stepping")

Phases(evs) == {Phase(evs[k].flag) : k \in 1..Len(evs)}

\* the step grid begin, begin+step, ... inside the range
Grid == IF span.step = 0 THEN {span.begin}
        ELSE {i \in Range : (i - span.begin) % Abs(span.step) = 0}
Dir == IF span.step < 0 THEN 0 - 1 ELSE 1
\* grid indices with no rejected grid index at or before them
BeforeFirstRejection ==
    {i \in Grid : \A j \in Grid : Dir * j <= Dir * i => j \notin rejected}

\* ---- C1 --------------------------------------------------------------------
\* C1 as stated: when run has ended, every index of the job's range outside
\* R (read in the claim's favour: every index of the step sequence in
\* [begin,end]) has been reported accepted exactly once.
C1_EveryUnrejectedAcceptedOnce ==
    pc = "stopped" => \A i \in Grid \ rejected : Count(Handled, i) = 1

\* C1 amended: when run has ended, every index reported accepted lies in
\* [begin,end] and outside R, and every index of the step sequence that comes
\* before the first rejected one has been reported accepted.
C1_AcceptedSoundAndPrefixComplete ==
    /\ \A k \in 1..Len(Handled) : Val(Handled[k].cur) \in Range \ rejected
    /\ pc = "stopped" => \A i \in BeforeFirstRejection : Count(Handled, i) >= 1

C1_Witness ==
    /\ pc = "stopped"
    /\ rejected # {}
    /\ Cardinality(BeforeFirstRejection) >= 2
    /\ Len(Handled) > Cardinality(BeforeFirstRejection)
    /\ \E i \in Grid \ rejected : Count(Handled, i) # 1

\* ---- C2 --------------------------------------------------------------------
\* C2: with a handler that accepts every index and a non-zero step, the probes
\* are begin, begin+step, ... in that order, each once, up to the last value
\* that does not pass end, and the job never has leaping or reverse set.
C2_AllAcceptedIsArithmetic ==
    (rejected = {} /\ span.step # 0) =>
        /\ \A k \in 1..Len(Handling) :
              Val(Handling[k].cur) = span.begin + (k - 1) * span.step
        /\ Len(Handling) <= Cardinality(Grid)
        /\ pc = "stopped" => Len(Handling) = Cardinality(Grid)
        /\ Handled = SelectSeq(emitted, LAMBDA e : e.name \in {"handled", "handle_skipped"})
        /\ "leaping" \notin flag /\ "reverse" \notin flag

C2_Witness ==
    /\ rejected = {}
    /\ span.step = 0 - 2
    /\ pc = "stopped"
    /\ Len(Handling) = 3
    /\ span.end \notin Grid

\* ---- C3 --------------------------------------------------------------------
\* C3: no "handling" event is ever emitted for an index outside
\* [min(begin,end), max(begin,end)], whatever the phase and the rejection set.
C3_ProbesInRange ==
    \A k \in 1..Len(emitted) :
        emitted[k].name \in {"handling", "handled", "handle_skipped"}
            => Val(emitted[k].cur) \in Range

\* all four phases probed, and the run ended on an out-of-range candidate
C3_Witness ==
    /\ pc = "stopped"
    /\ Phases(Handling) = {"stepping", "leaping", "reverse_leaping", "reverse_stepping"}

\* ---- C4 --------------------------------------------------------------------
\* C4: every probe made with reverse set lies between first_unaccepted_value
\* and the breakpoint index (the accepted leap target).
C4_BackfillWithinGap ==
    (emitted # <<>> /\ Last(emitted).name \in {"handled", "handle_skipped"}
        /\ "reverse" \in Last(emitted).flag)
    => Between(Val(Last(emitted).cur), Val(first_unaccepted), Val(break_point_current))

\* ---- C5 --------------------------------------------------------------------
Accepted == Indices(Handled)
JobIs(b, e, st, R) == span = [begin |-> b, end |-> e, step |-> st] /\ rejected = R

\* the rows of test_jump_back with |step| = 1
C5_TestRows ==
    pc = "stopped" =>
        /\ JobIs(1, 10, 1, {1, 2}) => Accepted = <<3, 4, 5, 6, 7, 8, 9, 10>>
        /\ JobIs(1, 10, 1, {2, 3}) => Accepted = <<1, 4, 5, 6, 7, 8, 9, 10>>
        /\ JobIs(1, 10, 1, {1, 2, 3}) => Accepted = <<5, 4, 6, 7, 8, 9, 10>>
        /\ JobIs(1, 10, 1, {2, 3, 4}) => Accepted = <<1, 6, 5, 7, 8, 9, 10>>
        /\ JobIs(1, 10, 1, {1, 2, 3, 4, 5}) => Accepted = <<7, 6, 8, 9, 10>>
        /\ JobIs(10, 1, 0 - 1, {1, 2}) => Accepted = <<10, 9, 8, 7, 6, 5, 4, 3>>
        /\ JobIs(10, 1, 0 - 1, {8, 9, 10}) => Accepted = <<6, 7, 5, 4, 3, 2, 1>>
        /\ JobIs(10, 1, 0 - 1, {6, 8, 9, 10}) => Accepted = <<4, 5, 3, 2, 1>>
        /\ JobIs(10, 1, 0 - 1, {4, 6, 8, 9, 10}) => Accepted = <<>>

\* the index accepted by the latest forward leap among the first k accepted
LeapTarget(k) ==
    LET ks == {j \in 1..k : Phase(Handled[j].flag) = "leaping"}
    IN Val(Handled[CHOOSE j \in ks : \A l \in ks : l <= j].cur)

\* the order of the accepted indices: forward stepping, the forward leap's
\* index, the backfill in backward order, forward stepping just past the leap
C5_PhaseOrder ==
    \A k \in 1..(Len(Handled) - 1) :
        LET a == Val(Handled[k].cur)
            b == Val(Handled[k + 1].cur)
            pa == Phase(Handled[k].flag)
            pb == Phase(Handled[k + 1].flag)
        IN /\ (pb = "stepping" /\ pa = "stepping") => b = a + span.step
           /\ (pb = "stepping" /\ pa # "stepping") => b = LeapTarget(k) + span.step
           /\ pb = "leaping" => \A j \in 1..k : Dir * Val(Handled[j].cur) < Dir * b
           /\ pb = "reverse_leaping" => (pa = "leaping" /\ Dir * b < Dir * a)
           /\ pb = "reverse_stepping" =>
                 (pa \in {"reverse_leaping", "reverse_stepping"} /\ b = a - span.step)

ForwardLeapLeavesRange ==
    /\ pc = "leaping" /\ checked
    /\ "reverse" \notin flag
    /\ OutOfRange(span, JumperNext(iter.i, iter.k, job_span.step))
ReverseLeapLeavesRange ==
    /\ pc = "leaping" /\ checked
    /\ "reverse" \in flag
    /\ OutOfRange(span, JumperNext(iter.i, iter.k, job_span.step))
ResumesFromBreakPoint ==
    /\ pc' = "switch"
    /\ flag' \cap {"stepping", "leaping", "reverse"} = {"stepping"}
    /\ job_span' = Val(break_point_span)
    /\ current' = Some(Val(break_point_current) + Val(break_point_span).step)

\* C6 as stated: a forward leap that runs past the end of the range falls
\* back to stepping from the saved breakpoint if one exists, and ends the job
\* only if none exists.
C6_ForwardLeapFallsBack ==
    [][ForwardLeapLeavesRange =>
          IF break_point_span # None THEN ResumesFromBreakPoint ELSE pc' = "stopped"]_vars

\* C6 amended: a forward leap that runs past the end of the range ends the
\* job whether or not a breakpoint was saved; it is a reverse leap leaving
\* the range that falls back to stepping from the saved breakpoint.
C6_ForwardLeapEnds ==
    [][/\ ForwardLeapLeavesRange => (pc' = "stopped" /\ "stopping" \in flag')
       /\ ReverseLeapLeavesRange => ResumesFromBreakPoint]_vars

\* a run ended by a forward leap although an earlier leap had saved a breakpoint
C6_Witness ==
    /\ pc = "stopped"
    /\ Last(emitted).name = "stopped"
    /\ Phase(Last(emitted).flag) = "leaping"
    /\ "reverse_leaping" \in Phases(Handling)

\* ---- C7 --------------------------------------------------------------------
\* C7: in every state one thread's set and unset calls can reach on a
\* TaskFlagGroup or on the vocabulary derived from it, whether the calls
\* succeed or fail, each mutual-exclusion group has at most one member
\* present, also when a member is added implicitly as a parent.
C7_AtMostOnePerMutexGroup ==
    \A g \in MutexGroups(vocab) : Cardinality(g \cap flags) <= 1

\* set of a flag whose parent had to be set implicitly, the nested set(parent)
\* being refused because the parent cannot coexist with a present member
C7_Witness ==
    \E t \in Threads :
        /\ Len(stack[t]) = 2
        /\ Top(t).op = "set" /\ Top(t).pcf = "raise"
        /\ call[t].why = "conflict"
        /\ \E g \in TaskMutexGroups : Top(t).cur \in g /\ g \cap flags # {}

\* ---- C8 --------------------------------------------------------------------
\* C8: whatever the interleaving of the set and unset calls of several
\* threads on one group, no state has two members of one mutual-exclusion
\* group present.
C8_MutexUnderConcurrency ==
    ~ \E g \in MutexGroups(vocab) :
          \E a \in g, b \in g : a # b /\ {a, b} \subseteq flags

\* ---- C9 --------------------------------------------------------------------
\* C9: a set or unset call that has failed leaves the member set equal to
\* the set before the call, also when the call had inserted or removed
\* members before it failed.
C9_FailedCallRestores ==
    \A t \in Threads : call[t].res = "failed" => flags = call[t].pre

\* a call that failed after it had changed the member set
C9_Witness ==
    \E t \in Threads :
        /\ call[t].res = "failed"
        /\ call[t].why \in {"conflict", "dependent"}
        /\ call[t].log # {}

\* ---- C10 -------------------------------------------------------------------
\* C10: no "set" notification is emitted for a flag that the failure of the
\* call rolls back: every flag a failed call announced as set is present
\* when the call has returned.
C10_NoSetEmittedThenRolledBack ==
    \A t \in Threads :
        call[t].res = "failed" =>
            \A e \in call[t].log : e.name = "set" => e.flag \in flags

\* ---- C11 -------------------------------------------------------------------
\* C11: in every state reachable by set calls (automatic parents on or off)
\* and unset calls (cascading on or off), every present member has all of
\* its parents present.
C11_ParentsPresent ==
    \A f \in flags : \A p \in Parents(f) : GetFlag(vocab, p) \in flags

\* an unset of a parent that removed a present dependent before the parent
C11_Witness ==
    \E t \in Threads :
        /\ call[t].op = "unset" /\ call[t].res = "ok"
        /\ \E e \in call[t].log, d \in call[t].log :
              /\ e.name = "unset" /\ d.name = "unset"
              /\ e.flag \in Parents(d.flag)

\* ---- C12 -------------------------------------------------------------------
\* the parent graph of a set of members: its edges member -> parent name,
\* their transitive closure, and whether some name reaches itself
Edges(G) == UNION {{<<f.name, p>> : p \in f.parents} : f \in G}
Compose(R) ==
    {e \in RegNames \X RegNames :
        \E b \in RegNames : <<e[1], b>> \in R /\ <<b, e[2]>> \in R}

RECURSIVE Closure(_)
Closure(R) ==
    LET R2 == R \cup Compose(R)
    IN IF R2 = R THEN R ELSE Closure(R2)

Cyclic(G) == \E n \in RegNames : <<n, n>> \in Closure(Edges(G))

\* C12: whatever has been registered so far, a register call whose batch
\* passes the parent-name check is rejected if the parent graph over the
\* registered members and the batch has a cycle, and raises the circular
\* reference error only if that graph has a cycle.
C12_LoopErrorIffCycle ==
    \A batch \in Batches :
        ParentsValid(batch, registered) =>
            \A r \in RegisterFrom(1, batch, registered) :
                /\ Cyclic(registered \cup BatchSet(batch)) => r.res = "failed"
                /\ r.why = "loop" => Cyclic(registered \cup BatchSet(batch))

\* ---- C13 -------------------------------------------------------------------
\* C13: a register call that has failed leaves the registered members
\* exactly as they were before the call.
C13_FailedRegisterRestores ==
    reg.res = "failed" => registered = reg.pre

\* ---- C14 -------------------------------------------------------------------
\* C14: when set, with automatic parent setting off, raises the missing
\* parent error for a member, at least one parent of that member is absent
\* from the group at that moment.
C14_MissingParentOnlyIfAbsent ==
    \A t \in Threads :
        (/\ Busy(t) /\ Len(stack[t]) = 1
         /\ Top(t).op = "set" /\ ~Top(t).opt
         /\ Top(t).pcf = "raise" /\ call[t].why = "parent")
        => \E p \in Parents(Top(t).cur) : GetFlag(vocab, p) \notin flags

\* ---- C15 -------------------------------------------------------------------
\* a successful unset(m) that directly follows a successful set(m)
RoundTrip(t) ==
    /\ call[t].op = "unset" /\ call[t].res = "ok"
    /\ call[t].last # None
    /\ Val(call[t].last).op = "set" /\ Val(call[t].last).res = "ok"
    /\ Val(call[t].last).one = call[t].one

\* C15 as stated: for every reachable member set S and every member m for
\* which set(m) succeeds in S, set(m) followed by unset(m) leaves the member
\* set equal to S.
C15_SetUnsetRestores ==
    \A t \in Threads : RoundTrip(t) => flags = Val(call[t].last).pre

\* C15 amended: set(m) followed by unset(m) leaves the member set equal to
\* S when m was absent from S and every parent of m was present in S.
C15_SetUnsetRestoresAbsentMember ==
    \A t \in Threads :
        (/\ RoundTrip(t)
         /\ GetFlag(vocab, call[t].one) \notin Val(call[t].last).pre
         /\ \A p \in Parents(GetFlag(vocab, call[t].one)) :
               GetFlag(vocab, p) \in Val(call[t].last).pre)
        => flags = Val(call[t].last).pre

\* a round trip of an absent member whose parent was present
C15_Witness ==
    \E t \in Threads :
        /\ RoundTrip(t)
        /\ GetFlag(vocab, call[t].one) \notin Val(call[t].last).pre
        /\ Parents(GetFlag(vocab, call[t].one)) # {}
        /\ \A p \in Parents(GetFlag(vocab, call[t].one)) :
              GetFlag(vocab, p) \in Val(call[t].last).pre
        /\ flags = Val(call[t].last).pre

\* ---- C16 -------------------------------------------------------------------
\* C16 as stated: wait returns true only if the flag is present when it
\* returns, and no_wait returns true only if the flag is absent when it
\* returns.
C16_WaitTrueOnlyIfPresent ==
    \A w \in Waiters :
        (waiter[w].st = "done" /\ waiter[w].res) =>
            IF waiter[w].op = "wait" THEN waiter[w].held ELSE ~waiter[w].held

\* what _wait does: wait returns true exactly if the flag is absent when it
\* returns and no_wait exactly if the flag is present when it returns; a
\* call without a timeout returns only true; a call that had blocked returns
\* true only when woken by the notify_all of a set or unset.
WaitTrueIffAbsent ==
    \A w \in Waiters :
        waiter[w].st = "done" =>
            /\ waiter[w].res = (IF waiter[w].op = "wait" THEN ~waiter[w].held
                                ELSE waiter[w].held)
            /\ ~waiter[w].timed => waiter[w].res
            /\ (waiter[w].res /\ waiter[w].by # "entry") =>
                  (waiter[w].by = "notify" \/ waiter[w].timed)

\* a wait without a timeout that had blocked while the flag was present and
\* returned true, woken once the flag was gone
WokenWait ==
    \E w \in Waiters :
        /\ waiter[w].st = "done" /\ waiter[w].res
        /\ waiter[w].op = "wait" /\ ~waiter[w].timed
        /\ waiter[w].by = "notify" /\ ~waiter[w].held

\* a thread blocked without a timeout although its condition holds and no
\* call is in progress: the rollback of a failed call changed the members
\* without notify_all
LostWakeup ==
    \E w \in Waiters :
        /\ waiter[w].st = "blocked" /\ ~waiter[w].timed /\ ~waiter[w].notified
        /\ Predicate(waiter[w].op, waiter[w].flag, flags)
        /\ \A t \in Threads : ~Busy(t)

\* ---- C17 -------------------------------------------------------------------
\* a thread has got past its wait / no_wait
Passed(t) == waiter[t].st = "done"
AllDone ==
    \A t \in Threads : script[t] = <<>> /\ ~Busy(t) /\ waiter[t].st # "blocked"

\* C17: in the two-thread tests a thread gets past wait(flag) only once the
\* other thread has unset the flag, and past no_wait(flag) only once the
\* other thread has set it; and both threads do get past and finish.
C17_LockStep ==
    /\ [](\A t \in Threads :
            Passed(t) =>
                IF waiter[t].op = "wait" THEN waiter[t].flag \notin flags
                ELSE waiter[t].flag \in flags)
    /\ <>AllDone

\* both threads finished, each having blocked and been woken by the other
C17_Witness ==
    /\ AllDone
    /\ \A t \in Threads : Passed(t) /\ waiter[t].by = "notify"

\* ---- C18 -------------------------------------------------------------------
\* the probes started after the first k events
ProbesSince(k) ==
    Cardinality({n \in (k + 1)..Len(emitted) : emitted[n].name = "handling"})

\* cancel() was called and has returned while the job was running
Cancelled == canceller.st = "done" /\ canceller.running

\* C18: once cancel() has been called by another thread on a running job,
\* the job starts no probe beyond the one in progress and, when its run has
\* ended, its flag holds stopping and stopping_with_canceled and holds
\* neither canceling, running nor stopping_with_exception.
C18_CancelEndsCanceled ==
    /\ Cancelled => ProbesSince(canceller.at) <= 1
    /\ (Cancelled /\ pc = "stopped") =>
          /\ {"stopping", "stopping_with_canceled"} \subseteq flag
          /\ flag \cap {"canceling", "running", "stopping_with_exception"} = {}

\* a run that _try_cancel ended does end as the claim says; the runs that do
\* not are those that end by IndexError after cancel() has returned
CancelHonoured ==
    (Cancelled /\ pc = "stopped" /\ err_info = "JobCancelError") =>
        /\ {"stopping", "stopping_with_canceled"} \subseteq flag
        /\ flag \cap {"canceling", "running", "stopping_with_exception"} = {}

\* ---- C19 -------------------------------------------------------------------
\* C19: once the flag holds stopping it holds it for ever, and a further
\* call of run() probes nothing and leaves the flag, worked_span and
\* current as they were.
C19_StoppingTerminal ==
    [][/\ "stopping" \in flag => "stopping" \in flag'
       /\ reruns' # reruns =>
             UNCHANGED <<flag, worked_span, current, emitted>>]_vars

\* what does hold of a further call of run(): the flag, current and the
\* events are left as they were
RerunKeepsFlagAndCurrent ==
    [][reruns' # reruns => UNCHANGED <<flag, current, emitted>>]_vars

\* ---- C20 -------------------------------------------------------------------
\* the positions in emitted of the probes at which the handler raised
\* ExplicitlyStopHandlingError
StopProbes ==
    {n \in 1..Len(emitted) :
        emitted[n].name = "handling" /\ Val(emitted[n].cur) \in stoppers}

\* C20: a probe at which the handler raises ExplicitlyStopHandlingError is
\* the job's last event but one, in whatever phase; it is followed by
\* "IndexJob.stopped", emitted once and with that error, and the job has
\* ended with stopping set.
C20_ExplicitStopEndsJob ==
    \A n \in StopProbes :
        /\ n = Len(emitted) - 1
        /\ emitted[Len(emitted)].name = "stopped"
        /\ Cardinality({m \in 1..Len(emitted) : emitted[m].name = "stopped"}) = 1
        /\ err_info = "ExplicitlyStopHandlingError"
        /\ pc = "stopped"
        /\ "stopping" \in flag

\* an explicit stop raised during a reverse leap, after earlier probes
C20_Witness ==
    /\ StopProbes # {}
    /\ {"leaping", "reverse"} \subseteq flag
    /\ Len(emitted) > 4

\* ---- C21 -------------------------------------------------------------------
\* the positions in emitted of the events with one of the given names
Events(names) == {n \in 1..Len(emitted) : emitted[n].name \in names}

\* what follows the event at n that ends a probe the handler did not accept:
\* stepping gives way to leaping, a leap goes on (or leaves the range), a
\* reverse step or a reverse leap that left the range goes back to stepping
AfterRejection(n) ==
    LET f == emitted[n].flag
        nx == emitted[n + 1]
    IN  IF n = Len(emitted) THEN pc # "stopped"
        ELSE CASE Phase(f) = "stepping" ->
                    nx.name = "step_switch" /\ Phase(nx.flag) = "leaping"
               [] Phase(f) = "leaping" ->
                    \/ nx.name = "handling" /\ nx.flag = f
                    \/ nx.name = "stopped" /\ err_info = "IndexError"
               [] Phase(f) = "reverse_leaping" ->
                    \/ nx.name = "handling" /\ nx.flag = f
                    \/ nx.name = "step_switch" /\ Phase(nx.flag) = "stepping"
               [] OTHER ->
                    nx.name = "step_switch" /\ Phase(nx.flag) = "stepping"

Results == {"handled", "handle_skipped", "unexpected_exception"}

OwnSamples(j) == SelectSeq(ProcessDequeOf(j), LAMBDA x : x.job = j)

\* C28: every monitored job has a rolling window of its own: the window of
\* job J holds only samples taken from J, and never more than 60 of them.
C28_WindowHoldsOwnSamples ==
    \A j \in DOMAIN monitored_jobs :
        /\ OwnSamples(j) = ProcessDequeOf(j)
        /\ Len(ProcessDequeOf(j)) <= DequeMaxLen

\* ---- C29 -------------------------------------------------------------------
\* C29: for every monitored job the total-probe counter is the number of
\* "handling" events the job emitted since the monitor first saw it and the
\* accepted-probe counter the number of "handled" events since then; both
\* are 0 while no probe has happened after first sight.
C29_CountersCountEvents ==
    \A j \in DOMAIN monitored_jobs :
        /\ monitored_jobs[j].total_count_of_indexes = monitored_jobs[j].h
        /\ monitored_jobs[j].total_count_of_valid_indexes = monitored_jobs[j].a

IndexSeq(b, e, st) == [k \in 1..IndexCount(b, e, st) |-> b + st * (k - 1)]

RECURSIVE Flatten(_)
Flatten(cs) ==
    IF cs = <<>> THEN <<>>
    ELSE IndexSeq(Head(cs).begin, Head(cs).end, Head(cs).step) \o Flatten(Tail(cs))

FetcherSeq == IndexSeq(fetcher.begin, fetcher.end, fetcher.step)

Started == "pending" \notin fetcher_flag

\* C23: the chunks of job_iter are valid ranges of the fetcher's step whose
\* ends are indices of the fetcher's sequence, none is empty, and put one
\* after the other in order they are the fetcher's index sequence: every
\* index is in exactly one chunk.
C23_ChunksPartition ==
    Started =>
        /\ Len(jobs) >= 1
        /\ \A i \in 1..Len(jobs) :
              /\ jobs[i].step = fetcher.step
              /\ StepSpanValid(jobs[i].begin, jobs[i].end, jobs[i].step)
              /\ \E k \in 1..Len(FetcherSeq) : FetcherSeq[k] = jobs[i].end
        /\ Flatten(jobs) = FetcherSeq

\* several chunks of a range whose end is not an index of the sequence
C23_Witness ==
    /\ Started
    /\ Len(jobs) >= 2
    /\ Abs(fetcher.step) = 2
    /\ FetcherSeq[Len(FetcherSeq)] # fetcher.end
    /\ jobs[Len(jobs)].end = FetcherSeq[Len(FetcherSeq)]

\* ---- C24 -------------------------------------------------------------------
\* the weights job_iter works with: [1] when it degrades to a single chunk
EffectiveWeights ==
    IF Degraded(Len(FetcherSeq), fetcher.thread_weights) THEN <<1>>
    ELSE fetcher.thread_weights

ChunkSize(c) == IndexCount(c.begin, c.end, c.step)

\* | size - (w / W) * n | < 1, in integers
WithinOne(size, w, W, n) == Abs(size * W - w * n) < W

\* C24: the number of indices of the i-th chunk differs from
\* (weight_i / sum of the weights) x (number of indices) by less than one.
C24_SizesProportional ==
    Started =>
        \A i \in 1..Len(jobs) :
            WithinOne(ChunkSize(jobs[i]), EffectiveWeights[i],
                      SumSeq(EffectiveWeights), Len(FetcherSeq))

\* every chunk but the one made from the last weight is within one
AllButLastProportional ==
    (Started /\ ~Degraded(Len(FetcherSeq), fetcher.thread_weights)) =>
        \A i \in 1..Len(jobs) :
            i < Len(fetcher.thread_weights) =>
                WithinOne(ChunkSize(jobs[i]), fetcher.thread_weights[i],
                          SumSeq(fetcher.thread_weights), Len(FetcherSeq))

\* test_job_iter_sample
SamplesAsTested ==
    (Started /\ <<fetcher.begin, fetcher.end, fetcher.step, fetcher.thread_weights>>
                  \in SampleInputs) =>
        jobs = IF fetcher.begin = 0
               THEN IF fetcher.thread_weights = <<1, 1>>
                    THEN <<[begin |-> 0, end |-> 49, step |-> 1],
                           [begin |-> 50, end |-> 99, step |-> 1]>>
                    ELSE <<[begin |-> 0, end |-> 33, step |-> 1],
                           [begin |-> 34, end |-> 99, step |-> 1]>>
               ELSE IF fetcher.thread_weights = <<1, 1>>
                    THEN <<[begin |-> 99, end |-> 50, step |-> -1],
                           [begin |-> 49, end |-> 0, step |-> -1]>>
                    ELSE <<[begin |-> 99, end |-> 66, step |-> -1],
                           [begin |-> 65, end |-> 0, step |-> -1]>>

\* ---- C25 -------------------------------------------------------------------
\* C25: a range of fewer indices than there are weights, or a weight list
\* that is empty or has one entry, gives exactly one chunk, which covers the
\* whole range.
C25_ShortRangeOneChunk ==
    (Started /\ (Len(FetcherSeq) < Len(fetcher.thread_weights)
                   \/ Len(fetcher.thread_weights) <= 1)) =>
        /\ Len(jobs) = 1
        /\ jobs[1].begin = fetcher.begin
        /\ jobs[1].end = FetcherSeq[Len(FetcherSeq)]
        /\ jobs[1].step = fetcher.step

\* two indices and three weights
C25_Witness ==
    /\ Started
    /\ Len(FetcherSeq) = 2
    /\ Len(fetcher.thread_weights) = 3
    /\ Len(jobs) = 1
    /\ Flatten(jobs) = FetcherSeq

\* ---- C26 -------------------------------------------------------------------
\* C26: when the run of a job has ended in stopping_with_exception, the
\* exception is held by the job's completion handle and join raises it.
C26_JoinReraises ==
    (pc = "stopped" /\ "stopping_with_exception" \in flag) =>
        /\ err_info # ""
        /\ FutureException = err_info
        /\ JoinRaises = err_info

\* ---- C27 -------------------------------------------------------------------
StopReturned == "stopping" \in fetcher_flag

WindowGain(j) == ProcessDequeOf(j)[Len(ProcessDequeOf(j))].p - ProcessDequeOf(j)[1].p

\* C31: for a running monitored job with at least 2 samples in its window,
\* remaining_time is the maximal duration when the mean of the differences
\* of consecutive samples is zero or negative, and is never negative.
C31_RemainingTimeNeverNegative ==
    \A j \in DOMAIN monitored_jobs :
        (Working(j) /\ Len(ProcessDequeOf(j)) >= 2) =>
            /\ WindowGain(j) <= 0 => RemainingTime(j) = "max"
            /\ RemainingTime(j) # "negative"

\* ---- C32 -------------------------------------------------------------------
\* C32: a read of processed or average_speed of the monitor, made from any
\* thread at any moment, returns the mean over running jobs or None; it
\* never fails because a job stopped, or was first seen, during the read.
C32_ReadsNeverFail ==
    reader.pc = "done" => reader.result \in {"mean", "None"}

\* a read of processed is not hurt by a job that stops during the read
ProcessedReadSurvivesStop ==
    (reader.pc = "done" /\ reader.kind = "processed") => reader.result # "TypeError"

\* ---- C33 -------------------------------------------------------------------
\* the indices set as current so far in this run
CurrentsSet == {Val(Handling[k].cur) : k \in 1..Len(Handling)}

SetMin(S) == CHOOSE x \in S : \A y \in S : x <= y
SetMax(S) == CHOOSE x \in S : \A y \in S : y <= x

\* worked_span is the interval from the least to the greatest index set as
\* current in this run, and there is none before the first
WorkedSpanIsHull ==
    /\ worked_span = None <=> CurrentsSet = {}
    /\ worked_span # None =>
          /\ MinVal(Val(worked_span)) = SetMin(CurrentsSet)
          /\ MaxVal(Val(worked_span)) = SetMax(CurrentsSet)

\* C33: at every point of a run worked_span is the interval from the least
\* to the greatest index set as current so far, processed is the number of
\* integers in worked_span over the number of integers in [begin, end], 0
\* before the first probe, and always within [0, 1].
C33_ProcessedIsWorkedShare ==
    /\ WorkedSpanIsHull
    /\ Processed(worked_span, span).raises = ""
    /\ Processed(worked_span, span).num =
          (IF CurrentsSet = {} THEN 0 ELSE SetMax(CurrentsSet) - SetMin(CurrentsSet) + 1)
    /\ CurrentsSet # {} => Processed(worked_span, span).den = SpanLen(span)
    /\ 0 <= Processed(worked_span, span).num
    /\ Processed(worked_span, span).num <= Processed(worked_span, span).den

\* ---- C34 -------------------------------------------------------------------
\* the members of fs that depend on a member of S through one or more parents
RECURSIVE DependOn(_, _)
DependOn(S, fs) ==
    LET more == {o \in fs \ S : \E f \in S : Parents(o) \cap Names(f) # {}}
    IN  IF more = {} THEN S ELSE DependOn(S \cup more, fs)

\* C34: an unset of one member m that has returned has removed m and every
\* member that was present and depended on m directly or through other
\* members, and nothing else; an unset of an absent member raises nothing
\* and changes nothing.
C34_CascadeRemovesDependentsOnly ==
    \A t \in Threads :
        (call[t].op = "unset" /\ call[t].one # "" /\ Known(vocab, call[t].one)) =>
            /\ call[t].res = "ok" =>
                  flags = call[t].pre \ DependOn({GetFlag(vocab, call[t].one)}, call[t].pre)
            /\ GetFlag(vocab, call[t].one) \notin call[t].pre =>
                  /\ call[t].res # "failed"
                  /\ call[t].res = "ok" => flags = call[t].pre

\* unset(ddd) has removed fff, which depends on ddd only through eee, and
\* has left aaa
C34_Witness ==
    \E t \in Threads :
        /\ call[t].op = "unset" /\ call[t].one = "ddd" /\ call[t].res = "ok"
        /\ {"aaa", "ddd", "eee", "fff"} \subseteq call[t].pre
        /\ "aaa" \in flags
        /\ flags \cap {"ddd", "eee", "fff"} = {}

\* ---- C35 -------------------------------------------------------------------
\* every thread has returned from its calls and the last call of each was
\* unset("aaa")
AllEndedWithUnset ==
    \A t \in Threads : ~Busy(t) /\ call[t].op = "unset" /\ call[t].res = "ok"

\* C35: when several threads concurrently call set(f) and unset(f) on one
\* group, no call fails or is about to raise in any interleaving, whether
\* it sets a present member or unsets an absent one, and once every thread
\* has returned from a last call that was unset(f) the group holds what every
\* sequential order of those calls leaves: no member at all.
C35_SetUnsetSerialisable ==
    /\ \A t \in Threads :
          /\ call[t].res # "failed"
          /\ Busy(t) =>
                /\ Top(t).pcf # "raise"
                /\ Top(t).ptodo = {}
                /\ Len(stack[t]) = 1
    /\ AllEndedWithUnset => flags = {}

C35_Witness ==
    /\ AllEndedWithUnset
    /\ \E t \in Threads : call[t].pre = {} /\ call[t].log = {}
    /\ \E t \in Threads : call[t].pre = {"aaa"} /\ call[t].log # {}
    /\ \A t \in Threads : left[t] = 0

\* ---- C36 -------------------------------------------------------------------
\* the events that end a probe, in order: the k-th belongs to the k-th probe
ProbeResults ==
    SelectSeq(emitted, LAMBDA e : e.name \in {"handled", "handle_skipped",
                                              "unexpected_exception"})

\* the k-th probe moves against the configured direction: its index lies
\* behind the index of the probe before it
MovesAgainst(H, k) ==
    k > 1 /\ Dir * Val(H[k].cur) < Dir * Val(H[k - 1].cur)

\* the k-th probe is the first after an accepted forward leap, or follows a
\* probe made with reverse present
AfterAcceptedLeap(H, Rs, k) ==
    /\ k > 1
    /\ \/ "reverse" \in H[k - 1].flag
       \/ Phase(H[k - 1].flag) = "leaping" /\ Rs[k - 1].name = "handled"

Resumes ==
    SelectSeq(emitted, LAMBDA e : e.name = "step_switch" /\ Phase(e.flag) = "stepping")

ResumeAdvances ==
    \A k \in 1..(Len(Resumes) - 1) :
        Dir * Val(Resumes[k].cur) < Dir * Val(Resumes[k + 1].cur)

NeverSpins == pc = "switch" => ("stepping" \in flag \/ "leaping" \in flag)

\* C37: for every finite range, every step and every set of rejected indices
\* a run that is not cancelled ends; every cycle resumes forward stepping
\* strictly further along the travel direction than the cycle before it,
\* and the main loop never turns with neither stepping nor leaping present.
C37_RunTerminates ==
    /\ <>(pc = "stopped")
    /\ [](ResumeAdvances /\ NeverSpins)

C37_Witness ==
    /\ pc = "stopped"
    /\ Len(Resumes) >= 3
    /\ span.step \in {2, 0 - 2}

\* ---- C38 -------------------------------------------------------------------
\* the step by which run() ends
RunEnds == pc # "stopped" /\ pc' = "stopped"

\* C38: whenever run ends, however the calls of cancel() of another thread
\* are interleaved with it, the flag then holds stopping and none of
\* pending, running and canceling, and break_point_span,
\* break_point_current and the first unaccepted value are cleared.
C38_RunEndsClean ==
    [][RunEnds =>
          /\ "stopping" \in flag'
          /\ flag' \cap {"pending", "running", "canceling"} = {}
          /\ break_point_span' = None
          /\ break_point_current' = None
          /\ first_unaccepted' = None]_vars

\* what does hold when run ends: stopping is present, pending and running
\* are not, the bookkeeping is cleared; and canceling is absent whenever
\* the run was ended by _try_cancel
RunEndsStoppedAndCleared ==
    [][RunEnds =>
          /\ "stopping" \in flag'
          /\ flag' \cap {"pending", "running"} = {}
          /\ break_point_span' = None
          /\ break_point_current' = None
          /\ first_unaccepted' = None
          /\ err_info' = "JobCancelError" => "canceling" \notin flag']_vars

\* ---- C39 -------------------------------------------------------------------
\* the step in which the call of thread t fails and its rollback is done
RolledBack(t) == call[t].res = "running" /\ call'[t].res = "failed"

\* what the last call of thread u, if it succeeded, has announced of member f
Committed(u, name, f) ==
    call[u].res = "ok" /\ [name |-> name, flag |-> f] \in call[u].log

\* the rollback of t keeps what the successful calls of the other threads
\* had made of the members
KeepsCommitted(t) ==
    \A u \in Threads \ {t} : \A f \in Registered(vocab) :
        /\ (Committed(u, "set", f) /\ f \in flags) => f \in flags'
        /\ (Committed(u, "unset", f) /\ f \notin flags) => f \notin flags'

\* every blocked thread whose condition the step makes true is notified
WakesWaiters ==
    \A w \in Waiters :
        (/\ waiter[w].st = "blocked"
         /\ ~Predicate(waiter[w].op, waiter[w].flag, flags)
         /\ Predicate(waiter[w].op, waiter[w].flag, flags')) =>
            waiter'[w].notified \/ waiter'[w].st = "done"

\* C39: the rollback of a failed set or unset never undoes what a
\* successful set or unset of another thread has committed to the group
\* since the failed call began, and never makes the condition of a thread
\* blocked in wait / no_wait true without waking it.
C39_RollbackIsLocal ==
    [][\A t \in Threads : RolledBack(t) => (KeepsCommitted(t) /\ WakesWaiters)]_vars

\* each half of the claim on its own
RollbackKeepsCommitted ==
    [][\A t \in Threads : RolledBack(t) => KeepsCommitted(t)]_vars
RollbackWakesWaiters ==
    [][\A t \in Threads : RolledBack(t) => WakesWaiters]_vars

\* the steps that add or remove a member under the lock do wake them
ChangeUnderLockWakes ==
    [][(\A t \in Threads : ~RolledBack(t)) => WakesWaiters]_vars

SteppingFromBeginOnGrid ==
    \A k \in 1..Len(Handling) :
        /\ Val(Handling[k].cur) \in Range
        /\ Val(Handling[k].cur) \notin Grid =>
              \E j \in 1..k : "leaping" \in Handling[j].flag

====
